---------------------------- MODULE Spec2Model ----------------------------
(***************************************************************************)
(* A model of the AStarNN library: A* lattice hashing with multi-probe     *)
(* queries (AStarLattice, AStarProbes, Hash, WorkBuff, AStarNN and the C   *)
(* interface).                                                             *)
(*                                                                         *)
(* Conventions.                                                            *)
(*  - Vectors of dim + 1 elements (c-vectors, order, xmod, mapped) are     *)
(*    functions on 0..dim, indexed as in the source.  The probe array and  *)
(*    the probe diff stream are sequences; a stream pointer is the offset  *)
(*    from the stream's first element.                                     *)
(*  - A double is modelled as an exact rational.  Vectors in the lattice   *)
(*    representation space are held as integer numerators over the common  *)
(*    denominator Den, so a coordinate a stands for the real a / Den.      *)
(*  - Hash_t (uint64_t) values are held as 8 little-endian limbs base 256  *)
(*    (a tuple) and all Hash_t arithmetic is modulo 2^64 on the limbs.     *)
(***************************************************************************)
EXTENDS Integers, Sequences, FiniteSets, TLC

(***************************************************************************)
(* Bounds of the model.                                                    *)
(***************************************************************************)
MaxDim == 2
MaxShells == 1
MaxCoord == 3
Den == 2
MaxFailAt == 2
MaxProbeDim == 3
MaxProbeShells == 3
MaxLatticeDim == 2
MaxCElem == 2
MaxElements == 2
NumThreads == 2
MaxProbeCElem == 3
MaxBlocks == 2

(***************************************************************************)
(* Program constants.                                                      *)
(***************************************************************************)
HASH_BITS == 64
RADIX == 31
MAX_NUM_SHELLS == 30
STREAM_MARK == 65535
INSERTION_SORT_THRESHOLD == 6
END == 65535
MAX_ZERO_PROBES_PER_SHELL == 16384

Error_ok == 0
Error_mem_fail == 1
Error_invalid_dim == 2
Error_invalid_num_shells == 3
Error_invalid_packing_radius == 4
Error_in_callback == 5
Error_insufficient_buffers == 6
Error_unknown == 7

(***************************************************************************)
(* Small helpers.                                                          *)
(***************************************************************************)
Abs(x) == IF x < 0 THEN -x ELSE x

\* C remainder of a / b (truncation toward zero), b > 0.
CRem(a, b) == IF a >= 0 THEN a % b ELSE -((-a) % b)

RECURSIVE SumTo(_, _)
SumTo(f, n) == IF n < 0 THEN 0 ELSE f[n] + SumTo(f, n - 1)

\* The sum of f[0..dim].
Sum(f, dim) == SumTo(f, dim)

RECURSIVE Repeat(_, _)
\* n copies of d.
Repeat(d, n) == IF n <= 0 THEN << >> ELSE <<d>> \o Repeat(d, n - 1)

RECURSIVE Vec(_, _)
\* The array of the elements f[0], ..., f[n], built element by element.
Vec(f, n) == IF n = 0 THEN (0 :> f[0]) ELSE Vec(f, n - 1) @@ (n :> f[n])

(***************************************************************************)
(* Hash_t arithmetic: unsigned, modulo 2^HASH_BITS.                        *)
(***************************************************************************)
LimbBase == 2^8
NumLimbs == HASH_BITS \div 8

\* (Hash_t) x for a CElem_t x: sign extension to 64 bits.
ToHash(x) ==
    <<x % LimbBase,
      (x \div LimbBase) % LimbBase,
      (x \div (LimbBase * LimbBase)) % LimbBase,
      (x \div (LimbBase * LimbBase * LimbBase)) % LimbBase>>
    \o (IF x < 0 THEN <<LimbBase - 1, LimbBase - 1, LimbBase - 1, LimbBase - 1>>
                 ELSE <<0, 0, 0, 0>>)

RECURSIVE add_limbs(_, _, _, _, _)
\* The limbs of a + b from limb i up, with the carry of the limb below;
\* sum holds the limbs below i.
add_limbs(a, b, i, carry, sum) ==
    IF i > NumLimbs THEN sum
    ELSE add_limbs(a, b, i + 1, (a[i] + b[i] + carry) \div LimbBase,
                   Append(sum, (a[i] + b[i] + carry) % LimbBase))

HashAdd(a, b) == add_limbs(a, b, 1, 0, << >>)

RECURSIVE complement(_, _)
\* The complement of the limbs of a from limb i up.
complement(a, i) ==
    IF i > NumLimbs THEN << >> ELSE <<LimbBase - 1 - a[i]>> \o complement(a, i + 1)

\* -a: the complement of every limb, plus one.
HashNeg(a) == HashAdd(complement(a, 1), ToHash(1))

HashSub(a, b) == HashAdd(a, HashNeg(b))

RECURSIVE Column(_, _, _, _)
\* Sum of a[i] * b[k + 1 - i] for i in 1..j.
Column(a, b, k, j) ==
    IF j = 0 THEN 0 ELSE a[j] * b[k + 1 - j] + Column(a, b, k, j - 1)

RECURSIVE mul_limbs(_, _, _, _, _)
\* The limbs of a * b from limb k up: column k of the long multiplication
\* comes in as t with the carry of the lower columns added; product holds the
\* limbs below k.
mul_limbs(a, b, k, t, product) ==
    IF k = NumLimbs THEN Append(product, t % LimbBase)
    ELSE mul_limbs(a, b, k + 1, Column(a, b, k + 1, k + 1) + (t \div LimbBase),
                   Append(product, t % LimbBase))

HashMul(a, b) == mul_limbs(a, b, 1, Column(a, b, 1, 1), << >>)

(***************************************************************************)
(* Hash (Hash.h, Hash.cpp).                                                *)
(***************************************************************************)
RECURSIVE hash_loop(_, _, _, _, _)
\* The do-while of Hash::hash from element i, with the running hash_code
\* and multiplier mul.
hash_loop(dim, to_hash, i, hash_code, mul) ==
    IF i > dim THEN hash_code
    ELSE hash_loop(dim, to_hash, i + 1,
                   HashAdd(hash_code, HashMul(ToHash(to_hash[i]), mul)),
                   HashMul(mul, ToHash(RADIX)))

\* Hash::hash(dim, to_hash).
Hash_hash(dim, to_hash) == hash_loop(dim, to_hash, 0, ToHash(0), ToHash(1))

RECURSIVE powers(_)
\* Element i of the table POW_RADIX keeps: m_x[0] = 1, m_x[i] = m_x[i-1] * RADIX.
powers(i) == IF i = 0 THEN ToHash(1) ELSE HashMul(powers(i - 1), ToHash(RADIX))

\* A wrong makeOrdered: ordered_powers[i] = powers[i].
makeOrdered_unordered(dim, order) == Vec([i \in 0..dim |-> powers(i)], dim)

\* Hash::makeOrdered: ordered_powers[i] = powers[order[i]].
makeOrdered(dim, order) == Vec([i \in 0..dim |-> powers(order[i])], dim)

(***************************************************************************)
(* WorkBuff: a stack of work buffers.  A WorkBuff* is modelled by the      *)
(* number of buffers left on the stack; 0 is the null pointer.             *)
(***************************************************************************)
\* get_buff can hand out a buffer: work_buff is not null.
get_buff_ok(work_buff) == work_buff > 0

\* work_buff after get_buff: work_buff->next().
get_buff_next(work_buff) == work_buff - 1

(***************************************************************************)
(* AStarLattice.                                                           *)
(***************************************************************************)
\* round_up<CElem_t>(num / den) = floor(num / den + 0.5), den > 0.
round_up(num, den) == (2 * num + den) \div (2 * den)

\* C integer division (truncation toward zero), b > 0.
CDiv(a, b) == IF a >= 0 THEN a \div b ELSE -((-a) \div b)

\* v_out[i] = -(c[i] * dimp + k), a vector of integer-valued doubles.
cvector_k_to_lattice_point_in_lattice_space(dim, c, k) ==
    Vec([i \in 0..dim |-> -(c[i] * (dim + 1) + k)], dim)

\* A wrong first loop: k += c[i].
derived_k_added(dim, c) == Sum(c, dim)

\* A wrong first loop: k is reduced to 0..dim after it.
derived_k_reduced(dim, c) == (0 - Sum(c, dim)) % (dim + 1)

\* The first loop of cvector_to_lattice_point_in_lattice_space: K_t k = 0 and
\* k -= c[i] over all i.
derived_k(dim, c) == 0 - Sum(c, dim)

\* The second loop: v_out[i] = -(c[i] * dimp + k) with the k derived.
cvector_to_lattice_point_in_lattice_space(dim, c) ==
    Vec([i \in 0..dim |-> -(c[i] * (dim + 1) + derived_k(dim, c))], dim)

RECURSIVE insertion_shift(_, _, _, _, _)
\* The inner while loop of insertion_sort_order on ords + lo: ords_j walks
\* down from j while ords_j >= ords and val < vals[*ords_j], then ord is
\* stored at ords_j + 1.
insertion_shift(vals, ords, lo, j, ord) ==
    IF j >= lo /\ vals[ord] < vals[ords[j]]
    THEN insertion_shift(vals, [ords EXCEPT ![j + 1] = ords[j]], lo, j - 1, ord)
    ELSE [ords EXCEPT ![j + 1] = ord]

RECURSIVE insertion_loop(_, _, _, _, _)
\* The for loop of insertion_sort_order from ords_i = i up to ords_end = hi.
insertion_loop(vals, ords, lo, i, hi) ==
    IF i >= hi THEN ords
    ELSE insertion_loop(vals, insertion_shift(vals, ords, lo, i - 1, ords[i]), lo, i + 1, hi)

\* insertion_sort_order(vals, ords + lo, ords + hi).
insertion_sort_order(vals, ords, lo, hi) == insertion_loop(vals, ords, lo, lo + 1, hi)

\* swap(ords[a], ords[b]).
swap(ords, a, b) == [ords EXCEPT ![a] = ords[b], ![b] = ords[a]]

\* swap_less(val, ords[a], ords[b]): swapped if val[ords[a]] < val[ords[b]].
swap_less(val, ords, a, b) == IF val[ords[a]] < val[ords[b]] THEN swap(ords, a, b) ELSE ords

\* The choice of the median in sort_order on ord + lo .. ord + hi, with med
\* the middle position: three swap_less and the swap of *med and *(ord + 1).
median(val, ords, lo, hi, med) ==
    swap(swap_less(val, swap_less(val, swap_less(val, ords, hi - 1, med), hi - 1, lo),
                   lo, med),
         med, lo + 1)

RECURSIVE advance_left(_, _, _, _)
\* do l_adv++ while (val[*l_adv] < temp_val).
advance_left(val, ords, temp_val, l_adv) ==
    IF val[ords[l_adv + 1]] < temp_val THEN advance_left(val, ords, temp_val, l_adv + 1)
    ELSE l_adv + 1

RECURSIVE advance_right(_, _, _, _)
\* do r_adv-- while (temp_val < val[*r_adv]).
advance_right(val, ords, temp_val, r_adv) ==
    IF temp_val < val[ords[r_adv - 1]] THEN advance_right(val, ords, temp_val, r_adv - 1)
    ELSE r_adv - 1

RECURSIVE partition(_, _, _, _, _)
RECURSIVE partition_at(_, _, _, _, _)
\* The inner while (true) of sort_order with temp_val = val[*ord]: both sides
\* advance.
partition(val, ords, lo, l_adv, r_adv) ==
    partition_at(val, ords, lo, advance_left(val, ords, val[ords[lo]], l_adv),
                 advance_right(val, ords, val[ords[lo]], r_adv))

\* The end of its body: break once l_adv >= r_adv, else swap and continue.
partition_at(val, ords, lo, l_adv, r_adv) ==
    IF l_adv >= r_adv
    THEN [ords |-> ords, l_adv |-> IF l_adv = r_adv THEN l_adv + 1 ELSE l_adv,
          r_adv |-> IF l_adv = r_adv THEN r_adv - 1 ELSE r_adv]
    ELSE partition(val, swap(ords, l_adv, r_adv), lo, l_adv, r_adv)

RECURSIVE sort_range(_, _, _, _)
RECURSIVE sort_parts(_, _, _, _, _, _)
RECURSIVE sort_partitioned(_, _, _, _)
\* One turn of the while (1) of sort_order on ord + lo .. ord + hi: the
\* insertion sort of a small array, else the median, the partition, the
\* median put back and the two parts.
sort_range(val, ords, lo, hi) ==
    IF hi - lo <= INSERTION_SORT_THRESHOLD THEN insertion_sort_order(val, ords, lo, hi)
    ELSE sort_partitioned(val, lo, hi,
             partition(val, median(val, ords, lo, hi, lo + (hi - lo) \div 2),
                       lo, lo + 1, hi - 1))

\* After the partition p: swap(*(l_adv - 1), *ord), num_left = l_adv -
\* (ord + 1) and num_right = last - r_adv.
sort_partitioned(val, lo, hi, p) ==
    sort_parts(val, swap(p.ords, p.l_adv - 1, lo), lo, hi - 1,
               p.l_adv - (lo + 1), (hi - 1) - p.r_adv)

\* The end of the turn: the smaller part is sorted by a recursive call and
\* the loop goes on with the bigger one.
sort_parts(val, ords, lo, last, num_left, num_right) ==
    IF num_left = 0
    THEN IF num_right = 0 THEN ords
         ELSE sort_range(val, ords, last + 1 - num_right, last + 1)
    ELSE IF num_right = 0 THEN sort_range(val, ords, lo, lo + num_left)
    ELSE IF num_left > num_right
    THEN sort_range(val, sort_range(val, ords, last + 1 - num_right, last + 1),
                    lo, lo + num_left)
    ELSE sort_range(val, sort_range(val, ords, lo, lo + num_left),
                    last + 1 - num_right, last + 1)

\* sort_order(val, ord, ord + size).
sort_order(val, ord, size) == sort_range(val, ord, 0, size)

\* START_SORT_ORD.ord(dim): the identity permutation.
StartSortOrd(dim) == Vec([i \in 0..dim |-> i], dim)

\* memcpy(dst + d0, src + s0, count * sizeof(Order_t)).
memcpy(dst, d0, src, s0, count) ==
    Vec([i \in DOMAIN dst |-> IF d0 <= i /\ i < d0 + count THEN src[s0 + i - d0] ELSE dst[i]],
        Cardinality(DOMAIN dst) - 1)

\* END_FILL.fill(dim): every element is END.
EndFill(dim) == Vec([i \in 0..dim |-> END], dim)

\* The bucket of element i in the block sort on z of closest_point:
\* ii = dimi - (int)(dimpd * (z_i + 0.5)), where z_i is zi over Den * dimp.
block_of(dim, zi) ==
    dim - ((2 * (dim + 1) * zi + (dim + 1) * Den * (dim + 1)) \div (2 * Den * (dim + 1)))

RECURSIVE block_sort(_, _, _, _, _)
\* The block sort on z of closest_point from element i: element i goes to the
\* head of the chain of its bucket.
block_sort(dim, z, i, link, bucket) ==
    IF i > dim THEN [link |-> link, bucket |-> bucket]
    ELSE block_sort(dim, z, i + 1,
                    [link EXCEPT ![i] = bucket[block_of(dim, z[i])]],
                    [bucket EXCEPT ![block_of(dim, z[i])] = i])

RECURSIVE walk_chain(_, _, _, _, _, _)
\* The inner do-while over the chain from t: alpha = alpha - 1.0 and
\* beta = beta - 2.0 * z[t] + 1.0.  With M = Den * dimp, z and alpha are
\* numerators over M and beta is a numerator over M * M.
walk_chain(link, z, M, t, alpha, beta) ==
    IF t = END THEN [alpha |-> alpha, beta |-> beta]
    ELSE walk_chain(link, z, M, link[t], alpha - M, beta - 2 * z[t] * M + M * M)

RECURSIVE scan_buckets(_, _, _, _, _, _, _, _, _)
RECURSIVE scan_compare(_, _, _, _, _, _, _, _)
\* The do-while over the buckets from p_bucket = bucket + p; m is the offset
\* of the best bucket so far, -1 for the null pointer.  D is a numerator over
\* M * M.
scan_buckets(dim, link, z, bucket, p, alpha, beta, D, m) ==
    IF p > dim THEN m
    ELSE IF bucket[p] = END
    THEN scan_buckets(dim, link, z, bucket, p + 1, alpha, beta, D, m)
    ELSE scan_compare(dim, link, z, bucket, p,
                      walk_chain(link, z, Den * (dim + 1), bucket[p], alpha, beta), D, m)

\* After the chain of bucket p, with alpha and beta in w:
\* d = beta * dimpd - alpha * alpha, and if (d < D) the bucket is the best.
scan_compare(dim, link, z, bucket, p, w, D, m) ==
    IF w.beta * (dim + 1) - w.alpha * w.alpha < D
    THEN scan_buckets(dim, link, z, bucket, p + 1, w.alpha, w.beta,
                      w.beta * (dim + 1) - w.alpha * w.alpha, p)
    ELSE scan_buckets(dim, link, z, bucket, p + 1, w.alpha, w.beta, D, m)

RECURSIVE inc_chain(_, _, _)
\* c[t]++ along the chain from t.
inc_chain(link, t, c) ==
    IF t = END THEN c ELSE inc_chain(link, link[t], [c EXCEPT ![t] = c[t] + 1])

RECURSIVE inc_buckets(_, _, _, _, _)
\* while (p_bucket <= m): increment c along the chain of every bucket up to m.
inc_buckets(link, bucket, p, m, c) ==
    IF p > m THEN c ELSE inc_buckets(link, bucket, p + 1, m, inc_chain(link, bucket[p], c))

\* closest_point without its last loop: c is left unshifted.
to_cvector_unshifted(dim, c, sum, k) == [err |-> Error_ok, k |-> k, c |-> c]

\* The end of closest_point: k = ((-sum % dimp) + dimp) % dimp,
\* s_k = (sum + k) / dimp, and c[i] -= s_k.
to_cvector(dim, c, sum, k) ==
    [err |-> Error_ok, k |-> k,
     c |-> Vec([i \in 0..dim |-> c[i] - CDiv(sum + k, dim + 1)], dim)]

\* closest_point once the buckets are scanned: the chains up to *m are
\* incremented.
closest_incremented(dim, c) ==
    to_cvector(dim, c, Sum(c, dim), (CRem(-Sum(c, dim), dim + 1) + dim + 1) % (dim + 1))

\* closest_point once z is block sorted into sorted.link and sorted.bucket.
closest_sorted(dim, y_round, z, sorted, alpha, beta) ==
    closest_incremented(dim,
        inc_buckets(sorted.link, sorted.bucket, 0,
            scan_buckets(dim, sorted.link, z, sorted.bucket, 0, alpha, beta,
                         beta * (dim + 1) - alpha * alpha, -1),
            y_round))

\* closest_point once c = y_round and z are filled.
closest_rounded(dim, y_round, z) ==
    closest_sorted(dim, y_round, z, block_sort(dim, z, 0, EndFill(dim), EndFill(dim)),
                   Sum(z, dim), Sum([i \in 0..dim |-> z[i] * z[i]], dim))

\* closest_point with y_round_i = round_up(v[i] / dimpd) and z_i = y_i - y_round_i.
closest_round(dim, v, y_round) ==
    closest_rounded(dim, y_round,
        Vec([i \in 0..dim |-> v[i] - y_round[i] * Den * (dim + 1)], dim))

\* AStarLattice::closest_point(dim, v, k, c, buff).  v holds numerators over
\* Den.  The result holds k, c and whether get_buff threw (z, link and bucket
\* take three buffers).
closest_point(dim, v, buff) ==
    IF buff < 3
    THEN [err |-> Error_insufficient_buffers, k |-> 0, c |-> v]
    ELSE closest_round(dim, v, Vec([i \in 0..dim |-> round_up(v[i], Den * (dim + 1))], dim))

RECURSIVE adjust_down(_, _, _, _, _)
\* setK0, h > 0: c[idx]-- and xmod[idx] += dimpd for idx = sortord[p..last - 1].
adjust_down(dim, sortord, p, last, cx) ==
    IF p >= last THEN cx
    ELSE adjust_down(dim, sortord, p + 1, last,
             [c    |-> [cx.c EXCEPT ![sortord[p]] = cx.c[sortord[p]] - 1],
              xmod |-> [cx.xmod EXCEPT ![sortord[p]] = cx.xmod[sortord[p]] + (dim + 1) * Den]])

RECURSIVE adjust_up(_, _, _, _, _)
\* setK0, h < 0: c[idx]++ and xmod[idx] -= dimpd for idx = sortord[p..last - 1].
adjust_up(dim, sortord, p, last, cx) ==
    IF p >= last THEN cx
    ELSE adjust_up(dim, sortord, p + 1, last,
             [c    |-> [cx.c EXCEPT ![sortord[p]] = cx.c[sortord[p]] + 1],
              xmod |-> [cx.xmod EXCEPT ![sortord[p]] = cx.xmod[sortord[p]] - (dim + 1) * Den]])

\* What setK0 leaves in xmod, c and order.
setK0_out(h, cx, order) ==
    [err |-> Error_ok, h |-> h, c |-> cx.c, xmod |-> cx.xmod, order |-> order]

\* A wrong adjustment: order is sortord, not rotated by h.
setK0_adjust_unrotated(dim, c, xmod, h, sortord) ==
    IF h > 0
    THEN setK0_out(h, adjust_down(dim, sortord, 0, h, [c |-> c, xmod |-> xmod]), sortord)
    ELSE setK0_out(h, adjust_up(dim, sortord, dim + 1 + h, dim + 1, [c |-> c, xmod |-> xmod]),
                   sortord)

\* Wrong copies: the block that goes to the end of order starts one element
\* too far.
setK0_copies_shifted(dim, h) ==
    IF h > 0
    THEN <<[dst |-> 0, src |-> h, count |-> dim + 1 - h],
           [dst |-> dim + 2 - h, src |-> 0, count |-> h]>>
    ELSE <<[dst |-> 1 - h, src |-> 0, count |-> dim + 1 + h],
           [dst |-> 0, src |-> dim + 1 + h, count |-> 0 - h]>>

\* The two memcpy calls of setK0 for h # 0, in the order the code makes them:
\* count elements from sortord + src to order + dst.  For h > 0 part is
\* dimp - h, for h < 0 it is dimp + h.
setK0_copies(dim, h) ==
    IF h > 0
    THEN <<[dst |-> 0, src |-> h, count |-> dim + 1 - h],
           [dst |-> dim + 1 - h, src |-> 0, count |-> h]>>
    ELSE <<[dst |-> 0 - h, src |-> 0, count |-> dim + 1 + h],
           [dst |-> 0, src |-> dim + 1 + h, count |-> 0 - h]>>

\* order after the two copies from sortord.
setK0_copy(order, sortord, copies) ==
    memcpy(memcpy(order, copies[1].dst, sortord, copies[1].src, copies[1].count),
           copies[2].dst, sortord, copies[2].src, copies[2].count)

\* setK0 for h # 0, with the residuals sorted into sortord.
setK0_adjust(dim, c, xmod, h, sortord) ==
    IF h > 0
    THEN setK0_out(h, adjust_down(dim, sortord, 0, h, [c |-> c, xmod |-> xmod]),
                   setK0_copy(EndFill(dim), sortord, setK0_copies(dim, h)))
    ELSE setK0_out(h, adjust_up(dim, sortord, dim + 1 + h, dim + 1, [c |-> c, xmod |-> xmod]),
                   setK0_copy(EndFill(dim), sortord, setK0_copies(dim, h)))

\* setK0 after its first loop: c and xmod are filled and h is the sum of c.
setK0_rounded(dim, c, xmod, h, buff) ==
    IF h = 0
    THEN setK0_out(h, [c |-> c, xmod |-> xmod], sort_order(xmod, StartSortOrd(dim), dim + 1))
    ELSE IF ~get_buff_ok(buff)
    THEN [err |-> Error_insufficient_buffers, h |-> h, c |-> c, xmod |-> xmod,
          order |-> EndFill(dim)]
    ELSE setK0_adjust(dim, c, xmod, h, sort_order(xmod, StartSortOrd(dim), dim + 1))

\* setK0 with cx = round_up(v[i] / dimpd) in c.
setK0_round(dim, v, c, buff) ==
    setK0_rounded(dim, c, Vec([i \in 0..dim |-> v[i] - c[i] * (dim + 1) * Den], dim),
                  Sum(c, dim), buff)

\* AStarLattice::setK0(dim, v, xmod, c, order, buff).  v and xmod hold
\* numerators over Den.  The result holds xmod, c, order, h and whether
\* get_buff threw.
setK0(dim, v, buff) ==
    setK0_round(dim, v, Vec([i \in 0..dim |-> round_up(v[i], Den * (dim + 1))], dim), buff)

(***************************************************************************)
(* PriorityQueue<P, T>: a binary max-heap on priority.  m_data[0..m_size-1] *)
(* is the sequence q, so m_data[i] is q[i + 1].                            *)
(***************************************************************************)
\* Swap m_data[i] and m_data[j].
heap_swap(q, i, j) == [q EXCEPT ![i + 1] = q[j + 1], ![j + 1] = q[i + 1]]

RECURSIVE sift_up(_, _)
\* The while loop of PriorityQueue::add from position i, parent = (i - 1) / 2.
sift_up(q, i) ==
    IF i > 0 /\ q[i + 1].priority > q[((i - 1) \div 2) + 1].priority
    THEN sift_up(heap_swap(q, i, (i - 1) \div 2), (i - 1) \div 2)
    ELSE q

\* PriorityQueue::add(to_add, priority).
PriorityQueue_add(q, to_add, priority) ==
    sift_up(Append(q, [data |-> to_add, priority |-> priority]), Len(q))

\* A wrong swap_to: the left child is taken whenever it is above m_data[i].
swap_to_left(q, i) ==
    IF q[i * 2 + 2].priority > q[i + 1].priority THEN i * 2 + 1
    ELSE IF i * 2 + 2 < Len(q) /\ q[i * 2 + 3].priority > q[i + 1].priority
    THEN i * 2 + 2
    ELSE 0

\* swap_to in the reheapify loop of PriorityQueue::poll at position i with
\* i * 2 + 1 < m_size; 0 where the loop breaks.
swap_to(q, i) ==
    IF i * 2 + 2 < Len(q)
    THEN IF q[i * 2 + 2].priority >= q[i * 2 + 3].priority
            /\ q[i * 2 + 2].priority > q[i + 1].priority
         THEN i * 2 + 1
         ELSE IF q[i * 2 + 3].priority >= q[i * 2 + 2].priority
                 /\ q[i * 2 + 3].priority > q[i + 1].priority
         THEN i * 2 + 2
         ELSE 0
    ELSE IF q[i * 2 + 2].priority > q[i + 1].priority THEN i * 2 + 1 ELSE 0

RECURSIVE sift_down(_, _)
RECURSIVE sift_to(_, _, _)
\* The reheapify loop of PriorityQueue::poll from position i.
sift_down(q, i) ==
    IF ~(i * 2 + 1 < Len(q)) THEN q ELSE sift_to(q, i, swap_to(q, i))

\* The end of the body of the reheapify loop: swap and i = swap_to.
sift_to(q, i, to) ==
    IF to = 0 THEN q ELSE sift_down(heap_swap(q, i, to), to)

\* A wrong poll: the last element of the heap is taken, not the head.
PriorityQueue_poll_last(q) ==
    [data |-> q[Len(q)].data, priority |-> q[Len(q)].priority,
     queue |-> SubSeq(q, 1, Len(q) - 1)]

\* PriorityQueue::poll on a queue of size() > 0: the head and the queue left.
PriorityQueue_poll(q) ==
    [data |-> q[1].data, priority |-> q[1].priority,
     queue |-> IF Len(q) = 1 THEN << >>
               ELSE sift_down([SubSeq(q, 1, Len(q) - 1) EXCEPT ![1] = q[Len(q)]], 0)]

(***************************************************************************)
(* CostSet<Cost_t>: m_heap[1..m_size] is a sequence of length m_size.      *)
(***************************************************************************)
\* std::numeric_limits<int>::max().
INT_MAX == 2147483647

\* CostSet(num_to_keep): pre-filled with the largest possible number.
CostSet_new(num_to_keep) == Repeat(INT_MAX, num_to_keep)

\* A wrong step of replaceLargest: the vacancy always moves to the left child.
replace_to_left(m_heap, new_cost, b) ==
    IF new_cost < m_heap[b] THEN b
    ELSE IF b + 1 <= Len(m_heap) /\ new_cost < m_heap[b + 1] THEN b + 1 ELSE 0

\* The position the vacancy a of replaceLargest moves to, with b = 2 * a
\* <= m_size and c = b + 1; 0 where the loop breaks.
replace_to(m_heap, new_cost, b) ==
    IF new_cost < m_heap[b]
    THEN IF b + 1 <= Len(m_heap) /\ m_heap[b] < m_heap[b + 1] THEN b + 1 ELSE b
    ELSE IF b + 1 <= Len(m_heap) /\ new_cost < m_heap[b + 1] THEN b + 1 ELSE 0

RECURSIVE replace_loop(_, _, _)
RECURSIVE replace_move(_, _, _, _)
\* The while loop of CostSet::replaceLargest with the vacant position a.
replace_loop(m_heap, new_cost, a) ==
    IF ~(2 * a <= Len(m_heap)) THEN [m_heap EXCEPT ![a] = new_cost]
    ELSE replace_move(m_heap, new_cost, a, replace_to(m_heap, new_cost, 2 * a))

\* m_heap[a] = m_heap[to] and a = to, or the break.
replace_move(m_heap, new_cost, a, to) ==
    IF to = 0 THEN [m_heap EXCEPT ![a] = new_cost]
    ELSE replace_loop([m_heap EXCEPT ![a] = m_heap[to]], new_cost, to)

\* CostSet::replaceLargest(new_cost).
replaceLargest(m_heap, new_cost) == replace_loop(m_heap, new_cost, 1)

\* CostSet::pushUniqueSmall(new_cost): the value returned and the heap left.
pushUniqueSmall(m_heap, new_cost) ==
    IF new_cost < m_heap[1]
    THEN IF \E i \in 1..Len(m_heap) : new_cost = m_heap[i]
         THEN [in_set |-> TRUE, m_heap |-> m_heap]
         ELSE [in_set |-> TRUE, m_heap |-> replaceLargest(m_heap, new_cost)]
    ELSE [in_set |-> (new_cost = m_heap[1]), m_heap |-> m_heap]

(***************************************************************************)
(* PointSet: the entries m_entries_buffer[0..m_size-1] in insertion order, *)
(* each with the slot of the hash table its chain hangs from.              *)
(***************************************************************************)
RECURSIVE power_of_two_from(_, _)
\* The smallest power of two x >= 1 with val <= x.
power_of_two_from(val, x) == IF val <= x THEN x ELSE power_of_two_from(val, 2 * x)

\* PointSet::power_of_two(val), for 0 < val <= 2^16: x with x/2 < val <= x.
power_of_two(val) == power_of_two_from(val, 1)

\* m_mem_size of PointSet(capacity).
PointSet_mem_size(capacity) == power_of_two(2 * capacity)

\* hashCode & m_mask, where m_mask = m_mem_size - 1 and m_mem_size <= 2^16.
PointSet_idx(capacity, hashCode) ==
    IF PointSet_mem_size(capacity) <= LimbBase
    THEN hashCode[1] % PointSet_mem_size(capacity)
    ELSE hashCode[1]
         + LimbBase * (hashCode[2] % (PointSet_mem_size(capacity) \div LimbBase))

\* PointSet::clear().
PointSet_clear == << >>

\* A wrong insert: any entry in the slot of c is taken to be c.
PointSet_insert_at_slot(points, capacity, c, idx) ==
    IF \E e \in 1..Len(points) : points[e].idx = idx
    THEN [is_new |-> FALSE, err |-> Error_ok, points |-> points]
    ELSE IF Len(points) >= capacity
    THEN [is_new |-> FALSE, err |-> Error_unknown, points |-> points]
    ELSE [is_new |-> TRUE, err |-> Error_ok,
          points |-> Append(points, [idx |-> idx, m_c |-> c])]

\* PointSet::insert once idx = hashCode & m_mask is known.
PointSet_insert_at(points, capacity, c, idx) ==
    IF \E e \in 1..Len(points) : points[e].idx = idx /\ points[e].m_c = c
    THEN [is_new |-> FALSE, err |-> Error_ok, points |-> points]
    ELSE IF Len(points) >= capacity
    THEN [is_new |-> FALSE, err |-> Error_unknown, points |-> points]
    ELSE [is_new |-> TRUE, err |-> Error_ok,
          points |-> Append(points, [idx |-> idx, m_c |-> c])]

\* PointSet::insert(dim, c) on a set of the capacity given: is_new, whether it
\* threw, and the set left.
PointSet_insert(points, capacity, dim, c) ==
    PointSet_insert_at(points, capacity, c, PointSet_idx(capacity, Hash_hash(dim, c)))

(***************************************************************************)
(* AStarProbes.                                                            *)
(***************************************************************************)
\* The first rows of the table PROBES_F; row r is PROBES_F_rows[r + 1].
PROBES_F_rows ==
    << <<1,1,1,1,1,1,1,1,1,1,1,1,1,1,1,1,1,1,1,1,1,1,1,1,1,1,1,1,1,1,1>>,
       <<2,3,4,5,6,7,8,9,10,11,12,13,14,15,16,17,18,19,20,21,22,23,24,25,26,27,28,29,30,31>>,
       <<4,6,7,9,10,12,14,16,18,21,23,25,26,28,30,32,34,38,40,41,43,45,47,48,50,52,56,58,60>>,
       <<7,8,11,14,17,21,25,27,29,36,39,44,50,52,56,63,66,70,77,82,90,95,99,103,111,116,122,129>>,
       <<12,14,20,25,32,37,49,55,67,73,83,94,110,117,137,152,164,176,198,208,233,245,265,283,313,323,355>> >>

\* PROBES_F[r][j]; the elements the initializer leaves out are zero.
PROBES_F(r, j) ==
    IF j + 1 <= Len(PROBES_F_rows[r + 1]) THEN PROBES_F_rows[r + 1][j + 1] ELSE 0

\* AStarProbes::num_zero_probes(dim, num_shells), num_shells <= MAX_NUM_SHELLS.
num_zero_probes(dim, num_shells) ==
    LET d == IF dim > num_shells THEN num_shells ELSE dim
    IN  PROBES_F(d, num_shells - d)

\* A wrong num_probes: the orbits are not counted in full.
num_probes_zero_only(dim, num_shells) == num_zero_probes(dim, num_shells)

\* AStarProbes::num_probes(dim, num_shells).
num_probes(dim, num_shells) == (dim + 1) * num_zero_probes(dim, num_shells)

RECURSIVE move_k(_, _)
\* k = ceil(sqrt(2.0 * label + 2.25) - 1.5 - ETA): with x = sqrt(2 label + 2.25)
\* - 1.5 we have x (x + 3) = 2 label, and x is either an integer or more than
\* ETA away from the integer below it, so k is the least natural number with
\* k (k + 3) >= 2 label.
move_k(label, k) == IF k * (k + 3) >= 2 * label THEN k ELSE move_k(label, k + 1)

\* move(label, i, j) once k is known: l = (k * (k + 3)) / 2, i = l - label,
\* j = k - i.
move_from(label, k) ==
    [i |-> (k * (k + 3)) \div 2 - label, j |-> k - ((k * (k + 3)) \div 2 - label)]

\* move(label, i, j).
move(label) == move_from(label, move_k(label, 0))

\* ProbePoint(dim): the zero c-vector with label 0.
ProbePoint_zero(dim) == [m_code |-> Vec([d \in 0..dim |-> 0], dim), m_label |-> 0]

\* ProbePoint(dim, code, inc_i, dec_i, label): m_code[inc_i]++ and then
\* m_code[dec_i]-- on a copy of code.
ProbePoint_new(code, inc_i, dec_i, label) ==
    [m_code  |-> [[code EXCEPT ![inc_i] = @ + 1] EXCEPT ![dec_i] = @ - 1],
     m_label |-> label]

\* A wrong step of the orbit: prev rotated up with nothing subtracted.
next_in_orbit_undecremented(dim, prev) ==
    Vec([d \in 0..dim |-> IF d = 0 THEN prev[dim] ELSE prev[d - 1]], dim)

\* The probe after prev in process_probe: prev rotated up by one dimension
\* with element 0 decremented.
next_in_orbit(dim, prev) ==
    Vec([d \in 0..dim |-> IF d = 0 THEN prev[dim] - 1 ELSE prev[d - 1]], dim)

RECURSIVE orbit_loop(_, _, _)
\* The loop of process_probe over k.
orbit_loop(dim, k, probes) ==
    IF k > dim THEN probes
    ELSE orbit_loop(dim, k + 1, Append(probes, next_in_orbit(dim, probes[Len(probes)])))

\* ProbeCollector::process_probe(shell_distance, probe).  The collector is the
\* probes stored so far, the number of probes the array holds, and whether
\* it threw.
process_probe(dim, collector, probe) ==
    IF Len(collector.probes) + (dim + 1) > collector.num_probes
    THEN [collector EXCEPT !.err = Error_unknown]
    ELSE [collector EXCEPT !.probes = orbit_loop(dim, 1, Append(collector.probes, probe))]

\* The dimension to increment (i) and to decrement (j) for the move label l.
move_ij(dim, l) ==
    IF l < ((dim + 1) * dim) \div 2
    THEN [i |-> dim - move(l).i, j |-> move(l).j]
    ELSE [i |-> move((dim + 1) * dim - 1 - l).i, j |-> dim - move((dim + 1) * dim - 1 - l).j]

RECURSIVE spawn_loop(_, _, _, _)
RECURSIVE spawn_move(_, _, _, _, _)
RECURSIVE spawn_push(_, _, _, _, _, _)
RECURSIVE spawn_pushed(_, _, _, _, _, _, _)
\* The for loop of generate_zero_probes over the move labels from l, for the
\* point code; g holds points, queue, seenCosts, shells_to_go, cost and the
\* collector.
spawn_loop(dim, code, l, g) ==
    IF ~(l < (dim + 1) * dim) THEN g ELSE spawn_move(dim, code, l, g, move_ij(dim, l))

\* A wrong shortcut: a move is also skipped when it increments a dimension
\* above the one it decrements.
spawn_move_pruned(dim, code, l, g, ij) ==
    IF code[ij.i] < 0 \/ code[ij.j] > 0 \/ ij.i > ij.j THEN spawn_loop(dim, code, l + 1, g)
    ELSE spawn_push(dim, code, l, g, ij,
                    g.cost - (dim + 1) * (code[ij.i] - code[ij.j] + 1) - ij.j + ij.i)

\* The shortcuts, then new_cost.
spawn_move(dim, code, l, g, ij) ==
    IF code[ij.i] < 0 \/ code[ij.j] > 0 THEN spawn_loop(dim, code, l + 1, g)
    ELSE spawn_push(dim, code, l, g, ij,
                    g.cost - (dim + 1) * (code[ij.i] - code[ij.j] + 1) - ij.j + ij.i)

\* seenCosts.pushUniqueSmall(-new_cost).
spawn_push(dim, code, l, g, ij, new_cost) ==
    spawn_pushed(dim, code, l, g, ij, new_cost, pushUniqueSmall(g.seenCosts, -new_cost))

\* The new candidate is added to the queue if pushUniqueSmall returned true.
spawn_pushed(dim, code, l, g, ij, new_cost, pushed) ==
    spawn_loop(dim, code, l + 1,
        IF pushed.in_set
        THEN [g EXCEPT !.seenCosts = pushed.m_heap,
                       !.queue = PriorityQueue_add(g.queue,
                                     ProbePoint_new(code, ij.i, ij.j, l), new_cost)]
        ELSE [g EXCEPT !.seenCosts = pushed.m_heap])

RECURSIVE zero_probes_loop(_, _)
RECURSIVE zero_probes_polled(_, _, _)
RECURSIVE zero_probes_insert(_, _, _)
RECURSIVE zero_probes_inserted(_, _, _, _)
RECURSIVE zero_probes_processed(_, _, _)
\* A wrong shell count: the search stops one shell early.
zero_probes_polled_early(dim, g, polled) ==
    IF polled.priority < g.cost
    THEN IF g.shells_to_go - 1 < 0 THEN g.collector
         ELSE zero_probes_insert(dim,
                  [g EXCEPT !.queue = polled.queue, !.points = PointSet_clear,
                            !.cost = polled.priority, !.shells_to_go = @ - 1],
                  polled.data)
    ELSE zero_probes_insert(dim, [g EXCEPT !.queue = polled.queue], polled.data)

\* The while loop of generate_zero_probes; g.collector.err is the exception
\* thrown, if any.
zero_probes_loop(dim, g) ==
    IF Len(g.queue) = 0 THEN g.collector
    ELSE zero_probes_polled(dim, g, PriorityQueue_poll(g.queue))

\* Are we seeing a new shell?
zero_probes_polled(dim, g, polled) ==
    IF polled.priority < g.cost
    THEN IF g.shells_to_go - 1 < -1 THEN g.collector
         ELSE zero_probes_insert(dim,
                  [g EXCEPT !.queue = polled.queue, !.points = PointSet_clear,
                            !.cost = polled.priority, !.shells_to_go = @ - 1],
                  polled.data)
    ELSE zero_probes_insert(dim, [g EXCEPT !.queue = polled.queue], polled.data)

\* Try to insert probe_point into the set of points.
zero_probes_insert(dim, g, probe_point) ==
    zero_probes_inserted(dim, g, probe_point,
                         PointSet_insert(g.points, MAX_ZERO_PROBES_PER_SHELL, dim,
                                         probe_point.m_code))

\* if (is_new): process the newly found remainder-zero probe point.
zero_probes_inserted(dim, g, probe_point, ins) ==
    IF ins.err # Error_ok THEN [g.collector EXCEPT !.err = ins.err]
    ELSE IF ~ins.is_new THEN zero_probes_loop(dim, [g EXCEPT !.points = ins.points])
    ELSE zero_probes_processed(dim,
             [g EXCEPT !.points = ins.points,
                       !.collector = process_probe(dim, g.collector, probe_point.m_code)],
             probe_point)

\* Spawn new points to search, unless process_probe threw.
zero_probes_processed(dim, g, probe_point) ==
    IF g.collector.err # Error_ok THEN g.collector
    ELSE zero_probes_loop(dim, spawn_loop(dim, probe_point.m_code, probe_point.m_label, g))

\* generate_zero_probes(dim, num_shells, processor): the collector left.
generate_zero_probes(dim, num_shells, collector) ==
    zero_probes_loop(dim,
        [points       |-> PointSet_clear,
         queue        |-> PriorityQueue_add(<< >>, ProbePoint_zero(dim), 0),
         seenCosts    |-> pushUniqueSmall(CostSet_new(num_shells + 1), 0).m_heap,
         shells_to_go |-> num_shells,
         cost         |-> 1,
         collector    |-> collector])

\* The check at the end of generate_probes: the collector must have filled
\* the array.
probes_collected(collector) ==
    IF collector.err = Error_ok /\ Len(collector.probes) # collector.num_probes
    THEN [collector EXCEPT !.err = Error_unknown]
    ELSE collector

\* AStarProbes::generate_probes(dim, num_shells, probes): the probes written
\* and whether it threw.
generate_probes(dim, num_shells) ==
    probes_collected(generate_zero_probes(dim, num_shells,
        [probes |-> << >>, num_probes |-> num_probes(dim, num_shells), err |-> Error_ok]))

\* A wrong flipIdx: no orbit is reversed.
flipIdx_unflipped(i, dimp, dimp2) == i

\* A wrong flipIdx: every second orbit is rotated by one probe, not reversed.
flipIdx_rotated(i, dimp, dimp2) ==
    IF i % dimp2 < dimp THEN i ELSE i - (i % dimp) + ((i + 1) % dimp)

\* flipIdx(i, dimp, dimp2).
flipIdx(i, dimp, dimp2) ==
    IF i % dimp2 < dimp THEN i ELSE i - (i % dimp2) - (i % dimp2) + dimp2 + dimp - 1

RECURSIVE diff_cols(_, _, _, _, _)
\* The loop over d of generate_probe_diffs with diff = probeC_t[d] -
\* probeC_s[d]: column d goes -diff times straight into the stream if
\* diff < 0 and diff times onto temp_cols if diff > 0.
diff_cols(dim, probeC_s, probeC_t, d, acc) ==
    IF d > dim THEN acc
    ELSE diff_cols(dim, probeC_s, probeC_t, d + 1,
             [neg |-> acc.neg \o Repeat(d, probeC_s[d] - probeC_t[d]),
              pos |-> acc.pos \o Repeat(d, probeC_t[d] - probeC_s[d])])

\* A wrong k for entry i: the remainder is not flipped on the odd orbits.
stream_k_unflipped(dim, i) == i % (dim + 1)

\* The value k put into the stream for entry i.
stream_k(dim, i) ==
    IF i % ((dim + 1) * 2) < dim + 1 THEN i % (dim + 1) ELSE dim - (i % (dim + 1))

\* The segment of the stream for one entry: k, the columns to decrement, a
\* mark, the columns to increment, a mark.
stream_segment(k, cols) ==
    <<k>> \o cols.neg \o <<STREAM_MARK>> \o cols.pos \o <<STREAM_MARK>>

RECURSIVE probe_diffs_loop(_, _, _, _)
\* The loop of generate_probe_diffs from entry i, between the probes
\* s = flipIdx(i - 1, dimp, dimp2) and t = flipIdx(i, dimp, dimp2).
probe_diffs_loop(dim, probes, i, stream) ==
    IF ~(i < Len(probes)) THEN stream
    ELSE probe_diffs_loop(dim, probes, i + 1,
             stream \o stream_segment(stream_k(dim, i),
                           diff_cols(dim, probes[flipIdx(i - 1, dim + 1, (dim + 1) * 2) + 1],
                                     probes[flipIdx(i, dim + 1, (dim + 1) * 2) + 1], 0,
                                     [neg |-> << >>, pos |-> << >>])))

\* AStarProbes::generate_probe_diffs(dim, num_probes, probes, stream): the
\* stream written; the pointer returned is its end.
generate_probe_diffs(dim, probes) == probe_diffs_loop(dim, probes, 1, << >>)

\* The sum over the dimensions of abs(probeC_t[d] - probeC_s[d]).
size_diff(dim, probeC_s, probeC_t) ==
    Sum([d \in 0..dim |-> Abs(probeC_t[d] - probeC_s[d])], dim)

RECURSIVE size_loop(_, _, _, _)
\* The loop of size_probe_stream from entry i.
size_loop(dim, probes, i, size) ==
    IF ~(i < Len(probes)) THEN size
    ELSE size_loop(dim, probes, i + 1,
             size + size_diff(dim, probes[flipIdx(i - 1, dim + 1, (dim + 1) * 2) + 1],
                              probes[flipIdx(i, dim + 1, (dim + 1) * 2) + 1]))

\* AStarProbes::size_probe_stream(dim, num_probes, probes).
size_probe_stream(dim, probes) == size_loop(dim, probes, 1, 3 * (Len(probes) - 1))

(***************************************************************************)
(* AStarNN: construction.                                                  *)
(***************************************************************************)
\* What the constructor leaves when it throws err: no object.
ctor_throw(err) ==
    [err |-> err,
     object |-> [m_dim |-> 0, m_num_shells |-> 0, m_num_probes |-> 0,
                 m_probe_diff_stream |-> << >>]]

\* The consistency check at the end of the constructor.
ctor_stream(dim, num_shells, size_diff_stream, stream) ==
    IF Len(stream) # size_diff_stream THEN ctor_throw(Error_unknown)
    ELSE [err |-> Error_ok,
          object |-> [m_dim |-> dim, m_num_shells |-> num_shells,
                      m_num_probes |-> num_probes(dim, num_shells),
                      m_probe_diff_stream |-> stream]]

\* The constructor once generate_probes has returned or thrown.
ctor_generated(dim, num_shells, generated) ==
    IF generated.err # Error_ok THEN ctor_throw(generated.err)
    ELSE ctor_stream(dim, num_shells, size_probe_stream(dim, generated.probes),
                     generate_probe_diffs(dim, generated.probes))

\* A wrong constructor: it lets the packing radius 0.0 through.
AStarNN_ctor_zero_radius(dim, packing_radius, num_shells) ==
    IF dim <= 0 THEN ctor_throw(Error_invalid_dim)
    ELSE IF num_shells > MAX_NUM_SHELLS THEN ctor_throw(Error_invalid_num_shells)
    ELSE IF packing_radius < 0 THEN ctor_throw(Error_invalid_packing_radius)
    ELSE ctor_generated(dim, num_shells, generate_probes(dim, num_shells))

\* AStarNN::AStarNN(dim, packing_radius, num_shells): the error thrown, or
\* Error_ok and the object constructed.  packing_radius is an integer here.
AStarNN_ctor(dim, packing_radius, num_shells) ==
    IF dim <= 0 THEN ctor_throw(Error_invalid_dim)
    ELSE IF num_shells > MAX_NUM_SHELLS THEN ctor_throw(Error_invalid_num_shells)
    ELSE IF packing_radius <= 0 THEN ctor_throw(Error_invalid_packing_radius)
    ELSE ctor_generated(dim, num_shells, generate_probes(dim, num_shells))

(***************************************************************************)
(* Query callbacks.  A callback object is a record: its class, and for a   *)
(* user function the match it fails at (0: none) and the code it returns   *)
(* there.                                                                  *)
(***************************************************************************)
\* The callback interface a callback class implements (Switcher).
Switcher(callback) ==
    CASE callback.class = "KeepHashes" -> "QueryCallback_Hash"
      [] callback.class = "KeepCVectors" -> "QueryCallback_CVector"
      [] callback.class = "KeepProbes" -> "QueryCallback"
      [] callback.class = "AStarNN_CallUserFunction" -> "QueryCallback"
      [] callback.class = "UserPoint" -> "QueryCallback_Point"
      [] callback.class = "MyCallback" -> "QueryCallback_Hash"

NEED_CVECTOR(callback) ==
    Switcher(callback) \in {"QueryCallback", "QueryCallback_CVector", "QueryCallback_Point"}

NEED_HASH(callback) == Switcher(callback) \in {"QueryCallback", "QueryCallback_Hash"}

\* The c-vector and the hash code of a walk that has not computed them.
NotDelivered == << >>

\* A wrong range test in match: err < Error_unknown.
CallUserFunction_match_exclusive(err) ==
    IF err # 0
    THEN IF err > 0 /\ err < Error_unknown THEN err ELSE Error_in_callback
    ELSE Error_ok

\* What AStarNN_CallUserFunction::match throws (Error_ok: nothing) when the
\* user function returns err.
CallUserFunction_match(err) ==
    IF err # 0
    THEN IF err > 0 /\ err <= Error_unknown THEN err ELSE Error_in_callback
    ELSE Error_ok

\* The code the user function returns at its nth call.
user_function(callback, nth) == IF callback.fail_at = nth THEN callback.code ELSE 0

\* The switch of the macro MATCH: the arguments match receives through the
\* callback interface iface.
delivered(dim, iface, hash_code, k, c) ==
    CASE iface = "QueryCallback" -> [hash_code |-> hash_code, k |-> k, c |-> c]
      [] iface = "QueryCallback_Hash" -> [hash_code |-> hash_code]
      [] iface = "QueryCallback_CVector" -> [k |-> k, c |-> c]
      [] iface = "QueryCallback_Point" ->
            [lattice_point |-> cvector_k_to_lattice_point_in_lattice_space(dim, c, k)]

\* What the match method of the callback throws at its nth call.
thrown(callback, nth) ==
    IF callback.class = "AStarNN_CallUserFunction"
    THEN CallUserFunction_match(user_function(callback, nth))
    ELSE Error_ok

\* The macro MATCH(hash_code, k, c) with the hash_code and c of the walk w:
\* the arguments delivered are appended to w.matches, and w.err is what the
\* callback threw.
MATCH(dim, callback, w, k) ==
    [w EXCEPT !.matches = Append(w.matches,
                              delivered(dim, Switcher(callback), w.hash_code, k, w.c)),
              !.err = thrown(callback, Len(w.matches) + 1)]

\* The walk of a query that threw err before init and before any match.
\* c_writes counts the writes to c after the origin is found, hash_ops the
\* calls of Hash::hash and Hash::makeOrdered and the updates of the rolling
\* hash; inits holds the arguments of the calls of init, each with the number
\* of matches made before it.
no_walk(err) ==
    [err |-> err, matches |-> << >>, pos |-> 0, overrun |-> FALSE,
     c |-> NotDelivered, hash_code |-> NotDelivered, c_writes |-> 0, hash_ops |-> 0,
     inits |-> << >>]

\* A wrong query head: init is not called.
callback_init_skipped(dim, mapped, w) == w

\* callback->init(dim, mapped).
callback_init(dim, mapped, w) ==
    [w EXCEPT !.inits = Append(@, [dim |-> dim, mapped |-> mapped,
                                   before |-> Len(w.matches)])]

\* The buffers left after the leading get_buff calls of a query on a
\* BuffStack of num_buffers: one for lattice_point if the callback takes
\* points, then others more; negative if get_buff threw.
leading_buffs(callback, num_buffers, others) ==
    num_buffers - (IF Switcher(callback) = "QueryCallback_Point" THEN 1 ELSE 0) - others

(***************************************************************************)
(* AStarNN: the generic query methods.  mapped is the query vector after   *)
(* to_lattice_space, as numerators over Den.  The result is the walk: the  *)
(* error thrown (Error_ok: none), the matches delivered in order, the      *)
(* stream pointer and whether a read went past the end of the stream.      *)
(***************************************************************************)
\* The walk before the first match: c is the c-vector found and hash_code
\* is NEED_HASH ? Hash::hash(dim, c) : 0.
first_walk(dim, callback, c, w) ==
    [w EXCEPT
        !.c = c,
        !.hash_code = IF NEED_HASH(callback) THEN Hash_hash(dim, c) ELSE ToHash(0),
        !.hash_ops = IF NEED_HASH(callback) THEN 1 ELSE 0]

\* _nearest_probe once closest_point has returned or thrown.
nearest_found(dim, callback, cp, w) ==
    IF cp.err # Error_ok THEN [w EXCEPT !.err = cp.err]
    ELSE MATCH(dim, callback, first_walk(dim, callback, cp.c, w), cp.k)

\* _nearest_probe(dim, scale, vector, callback).
nearest_probe(dim, mapped, callback) ==
    IF leading_buffs(callback, 6, 2) < 0 THEN no_walk(Error_insufficient_buffers)
    ELSE nearest_found(dim, callback,
                       closest_point(dim, mapped, leading_buffs(callback, 6, 2)),
                       callback_init(dim, mapped, no_walk(Error_ok)))

\* A wrong Delaunay step: the hash of the vertex before is kept.
rehash_stale(dim, callback, w) == w

\* hash_code = Hash::hash(dim, c) if NEED_HASH.
rehash(dim, callback, w) ==
    IF NEED_HASH(callback)
    THEN [w EXCEPT !.hash_code = Hash_hash(dim, w.c), !.hash_ops = @ + 1]
    ELSE w

RECURSIVE delaunay_loop(_, _, _, _, _)
\* The for loop of _delaunay_probes from k: c[order[k - 1]]--, the hash, and
\* the match.
delaunay_loop(dim, callback, order, k, w) ==
    IF ~(k <= dim) \/ w.err # Error_ok THEN w
    ELSE delaunay_loop(dim, callback, order, k + 1,
             MATCH(dim, callback,
                   rehash(dim, callback,
                          [w EXCEPT !.c[order[k - 1]] = @ - 1, !.c_writes = @ + 1]), k))

\* _delaunay_probes once setK0 has returned or thrown.
delaunay_found(dim, callback, k0, w) ==
    IF k0.err # Error_ok THEN [w EXCEPT !.err = k0.err]
    ELSE delaunay_loop(dim, callback, k0.order, 1,
                       MATCH(dim, callback, first_walk(dim, callback, k0.c, w), 0))

\* _delaunay_probes(dim, scale, vector, callback).
delaunay_probes(dim, mapped, callback) ==
    IF leading_buffs(callback, 5, 4) < 0 THEN no_walk(Error_insufficient_buffers)
    ELSE delaunay_found(dim, callback, setK0(dim, mapped, leading_buffs(callback, 5, 4)),
                        callback_init(dim, mapped, no_walk(Error_ok)))

\* A wrong loop body: c and the rolling hash are updated whatever the
\* callback needs.
apply_column_unguarded(callback, order, ordered_powers, sign, w, diffCol) ==
    [w EXCEPT !.pos = @ + 1,
              !.c = [@ EXCEPT ![order[diffCol]] = @ + sign],
              !.c_writes = @ + 1,
              !.hash_code = IF sign < 0 THEN HashSub(@, ordered_powers[diffCol])
                            ELSE HashAdd(@, ordered_powers[diffCol]),
              !.hash_ops = @ + 1]

\* The body of a while loop of _extended_probes for the column diffCol:
\* c[order[diffCol]] moves by sign and hash_code by sign * ordered_powers[diffCol].
apply_column(callback, order, ordered_powers, sign, w, diffCol) ==
    [w EXCEPT !.pos = @ + 1,
              !.c = IF NEED_CVECTOR(callback) THEN [@ EXCEPT ![order[diffCol]] = @ + sign]
                    ELSE @,
              !.c_writes = IF NEED_CVECTOR(callback) THEN @ + 1 ELSE @,
              !.hash_code = IF ~NEED_HASH(callback) THEN @
                            ELSE IF sign < 0 THEN HashSub(@, ordered_powers[diffCol])
                            ELSE HashAdd(@, ordered_powers[diffCol]),
              !.hash_ops = IF NEED_HASH(callback) THEN @ + 1 ELSE @]

RECURSIVE apply_columns(_, _, _, _, _, _)
\* One while loop of _extended_probes over the columns up to STREAM_MARK.
apply_columns(callback, stream, order, ordered_powers, sign, w) ==
    IF w.overrun THEN w
    ELSE IF ~(w.pos < Len(stream)) THEN [w EXCEPT !.overrun = TRUE]
    ELSE IF stream[w.pos + 1] = STREAM_MARK THEN [w EXCEPT !.pos = @ + 1]
    ELSE apply_columns(callback, stream, order, ordered_powers, sign,
             apply_column(callback, order, ordered_powers, sign, w, stream[w.pos + 1]))

\* A wrong loop condition: while (probe_diff_stream <= end).
more_stream_inclusive(stream, w) == w.pos <= Len(stream)

\* The loop continues: while (probe_diff_stream < end).
more_stream(stream, w) == w.pos < Len(stream)

RECURSIVE extended_loop(_, _, _, _, _, _)
RECURSIVE extended_segment(_, _, _, _, _, _, _)
RECURSIVE extended_matched(_, _, _, _, _, _)
\* The do-while loop of _extended_probes over the segments of the stream:
\* k is read, then the decrements and the increments are applied.
extended_loop(dim, callback, stream, order, ordered_powers, w) ==
    IF ~(w.pos < Len(stream)) THEN [w EXCEPT !.overrun = TRUE]
    ELSE extended_segment(dim, callback, stream, order, ordered_powers, stream[w.pos + 1],
             apply_columns(callback, stream, order, ordered_powers, 1,
                 apply_columns(callback, stream, order, ordered_powers, -1,
                               [w EXCEPT !.pos = @ + 1])))

\* The match at the end of the segment.
extended_segment(dim, callback, stream, order, ordered_powers, k, w) ==
    IF w.overrun THEN w
    ELSE extended_matched(dim, callback, stream, order, ordered_powers,
                          MATCH(dim, callback, w, k))

\* After the match: the exception, or the loop condition.
extended_matched(dim, callback, stream, order, ordered_powers, w) ==
    IF w.err # Error_ok THEN w
    ELSE IF more_stream(stream, w)
    THEN extended_loop(dim, callback, stream, order, ordered_powers, w)
    ELSE w

\* _extended_probes from its first match on.
extended_first(dim, callback, stream, order, ordered_powers, first) ==
    IF first.err # Error_ok THEN first
    ELSE extended_loop(dim, callback, stream, order, ordered_powers, first)

\* _extended_probes once setK0 has returned or thrown: the ordered powers if
\* NEED_HASH, and the first match.
extended_found(dim, callback, stream, k0, w) ==
    IF k0.err # Error_ok THEN [w EXCEPT !.err = k0.err]
    ELSE extended_first(dim, callback, stream, k0.order,
             IF NEED_HASH(callback) THEN makeOrdered(dim, k0.order)
             ELSE Vec([i \in 0..dim |-> ToHash(0)], dim),
             MATCH(dim, callback,
                   [first_walk(dim, callback, k0.c, w) EXCEPT
                       !.hash_ops = IF NEED_HASH(callback) THEN @ + 1 ELSE @], 0))

\* _extended_probes(dim, scale, probe_diff_stream, end, vector, callback).
extended_probes(dim, stream, mapped, callback) ==
    IF leading_buffs(callback, 7, 5) < 0 THEN no_walk(Error_insufficient_buffers)
    ELSE extended_found(dim, callback, stream,
                        setK0(dim, mapped, leading_buffs(callback, 7, 5)),
                        callback_init(dim, mapped, no_walk(Error_ok)))

\* AStarNN::nearest_hash(vector).
nearest_hash(dim, mapped) ==
    nearest_probe(dim, mapped, [class |-> "KeepHashes", fail_at |-> 0, code |-> 0]).matches[1].hash_code

(***************************************************************************)
(* AStarIndex<T>: m_map is the list of the (hash code, element list) pairs *)
(* of the unordered_map, in the order the hash codes were first put.       *)
(***************************************************************************)
\* m_map.find(hash_code): the position of the pair found, 0 for m_map.end().
map_find(m_map, hash_code) ==
    IF \E i \in 1..Len(m_map) : m_map[i].hash_code = hash_code
    THEN CHOOSE i \in 1..Len(m_map) : m_map[i].hash_code = hash_code
    ELSE 0

\* list.push_back(elem) on the list m_map[hash_code], which operator[]
\* makes, empty, if the hash code is new.
map_push_back(m_map, found, hash_code, elem) ==
    IF found = 0 THEN Append(m_map, [hash_code |-> hash_code, list |-> <<elem>>])
    ELSE [m_map EXCEPT ![found].list = Append(@, elem)]

\* AStarIndex::put_hash(hash_code, elem).
put_hash(this, hash_code, elem) ==
    [this EXCEPT !.m_map = map_push_back(@, map_find(@, hash_code), hash_code, elem),
                 !.m_num_elements = @ + 1]

\* AStarIndex::put(vector, elem): put_hash(hash(vector), elem).
put(this, mapped, elem) == put_hash(this, nearest_hash(this.m_hash.m_dim, mapped), elem)

\* A wrong count_hash: a hash code found counts once, whatever its list.
count_hash_found(this, hash_code) ==
    IF map_find(this.m_map, hash_code) # 0 THEN 1 ELSE 0

\* AStarIndex::count_hash(hash_code).
count_hash(this, hash_code) ==
    IF map_find(this.m_map, hash_code) # 0
    THEN Len(this.m_map[map_find(this.m_map, hash_code)].list)
    ELSE 0

RECURSIVE MyCallback_matches(_, _, _, _)
\* m_count after MyCallback::match has run for matches[i..]:
\* m_count += m_self->count_hash(hash_code) at each.
MyCallback_matches(this, matches, i, m_count) ==
    IF i > Len(matches) THEN m_count
    ELSE MyCallback_matches(this, matches, i + 1,
                            m_count + count_hash(this, matches[i].hash_code))

\* AStarIndex::count_extended(vector): the exception of the query, if any,
\* and query_callback.m_count.
count_extended(this, mapped) ==
    [err |-> extended_probes(this.m_hash.m_dim, this.m_hash.m_probe_diff_stream, mapped,
                             [class |-> "MyCallback", fail_at |-> 0, code |-> 0]).err,
     count |-> MyCallback_matches(this,
                   extended_probes(this.m_hash.m_dim, this.m_hash.m_probe_diff_stream, mapped,
                                   [class |-> "MyCallback", fail_at |-> 0, code |-> 0]).matches,
                   1, 0)]

(***************************************************************************)
(* The state machine: a client of the C interface (and of the C++ query    *)
(* templates for point callbacks) that creates an engine, queries it and   *)
(* deletes it.                                                             *)
(***************************************************************************)
VARIABLES
    self,       \* the handle AStarNN_new wrote: << >> is null, <<object>> an engine
    new_call,   \* << >>, or <<the arguments of the last AStarNN_new>>
    new_err,    \* the code the last AStarNN_new returned
    pc,         \* "idle", or "returned" when a query has just returned
    query,      \* the query last made: its type, callback and mapped vector
    walk,       \* the walk of that query
    result,     \* the code that query returned (the Error it threw, for C++)
    lattice,    \* the last call of a static helper: its arguments and output
    index,      \* << >>, or <<the AStarIndex object the client made>>
    counted,    \* << >>, or <<the last count_extended call and what it returned>>
    threads,    \* the position of each query thread in its query
    tables,     \* the process-wide tables POW_RADIX, START_SORT_ORD and END_FILL
    costset,    \* << >>, or <<a CostSet, the values pushed and the last call>>
    pointset,   \* << >>, or <<a PointSet, the c-vectors inserted and the last call>>
    pqueue,     \* << >>, or <<a PriorityQueue and the last call>>
    origin      \* << >>, or <<the last setK0 call a client made and what it left>>

vars ==
    <<self, new_call, new_err, pc, query, walk, result, lattice, index, counted, threads,
      tables, costset, pointset, pqueue, origin>>

\* The codes a user function returns when it fails.
UserCodes == {-1, 1, 4, 7, 8}

\* The callback objects of the queries.
Callbacks ==
    {[class |-> cl, fail_at |-> 0, code |-> 0] :
        cl \in {"KeepHashes", "KeepCVectors", "KeepProbes", "UserPoint",
                "AStarNN_CallUserFunction"}}
    \cup {[class |-> "AStarNN_CallUserFunction", fail_at |-> at, code |-> code] :
            at \in 1..MaxFailAt, code \in UserCodes}

\* The mapped query vectors of a dim-dimensional engine: the points of the
\* plane sum = 0 with the first dim coordinates in -MaxCoord..MaxCoord (over
\* Den).  to_lattice_space maps the query vectors onto this plane.
Plane(dim) ==
    {Vec([i \in 0..dim |-> IF i < dim THEN f[i] ELSE 0 - SumTo(f, dim - 1)], dim) :
        f \in [0..(dim - 1) -> (0 - MaxCoord)..MaxCoord]}

NoQuery ==
    [type |-> "none", callback |-> [class |-> "KeepHashes", fail_at |-> 0, code |-> 0],
     mapped |-> << >>]

\* No static helper has been called.
NoLatticeCall == [op |-> "none", dim |-> 0, c |-> << >>, k |-> 0, v_out |-> << >>]

\* The dimension the process-wide tables are first allocated for:
\* Hash(Dim_t initial_dim = 16), StartSortOrd(Dim_t initial_dim = 16) and
\* EndFill(Dim_t initial_dim = 16).
initial_dim == 16

\* The query threads of the client.
Threads == 1..NumThreads

\* A process-wide table after static initialisation: m_dim, and block, the
\* number of times its array (m_x, m_ord, m_fill) has moved.
StaticTable == [m_dim |-> initial_dim, block |-> 0]

\* A thread that is in no query.
IdleThread == [pc |-> "idle", type |-> "none", need_hash |-> FALSE, table |-> "none", ptr |-> 0]

Init ==
    /\ origin = << >>
    /\ costset = << >>
    /\ pointset = << >>
    /\ pqueue = << >>
    /\ tables = [POW_RADIX |-> StaticTable, START_SORT_ORD |-> StaticTable,
                 END_FILL |-> StaticTable]
    /\ threads = [t \in Threads |-> IdleThread]
    /\ index = << >>
    /\ counted = << >>
    /\ lattice = NoLatticeCall
    /\ self = << >>
    /\ new_call = << >>
    /\ new_err = Error_ok
    /\ pc = "idle"
    /\ query = NoQuery
    /\ walk = no_walk(Error_ok)
    /\ result = Error_ok

\* AStarNN_new(dim, packing_radius, num_shells, &self).
AStarNN_new(dim, packing_radius, num_shells) ==
    /\ pc = "idle"
    /\ self = << >>
    /\ new_call' = <<[dim |-> dim, packing_radius |-> packing_radius,
                      num_shells |-> num_shells]>>
    /\ \E made \in {AStarNN_ctor(dim, packing_radius, num_shells)} :
           /\ self' = IF made.err = Error_ok THEN <<made.object>> ELSE << >>
           /\ new_err' = made.err
    /\ UNCHANGED <<pc, query, walk, result, lattice, index, counted, threads, tables, costset, pointset, pqueue, origin>>

\* AStarNN_delete(self), after which the client forgets the handle and the
\* call that made it.
AStarNN_delete ==
    /\ pc = "idle"
    /\ self # << >>
    /\ self' = << >>
    /\ new_call' = << >>
    /\ new_err' = Error_ok
    /\ UNCHANGED <<pc, query, walk, result, lattice, index, counted, threads, tables, costset, pointset, pqueue, origin>>

\* A query has run: RETURN_ERROR returns what the walk threw.  A read past
\* the end of the stream is undefined: any code may come back.
Returned(type, callback, mapped, w) ==
    /\ pc' = "returned"
    /\ query' = [type |-> type, callback |-> callback, mapped |-> mapped]
    /\ walk' = w
    /\ IF w.overrun THEN result' \in Error_ok..Error_unknown ELSE result' = w.err
    /\ UNCHANGED <<self, new_call, new_err, lattice, index, counted, threads, tables, costset, pointset, pqueue, origin>>

\* AStarNN_nearest_hash / _cvector / _probe / _callback and nearest_probe, on
\* some query vector.
AStarNN_nearest(callback) ==
    /\ pc = "idle"
    /\ self # << >>
    /\ \E mapped \in Plane(self[1].m_dim) :
           Returned("nearest", callback, mapped,
                    nearest_probe(self[1].m_dim, mapped, callback))

\* AStarNN_delaunay_hash / _cvector / _probe / _callback and delaunay_probes,
\* on some query vector.
AStarNN_delaunay(callback) ==
    /\ pc = "idle"
    /\ self # << >>
    /\ \E mapped \in Plane(self[1].m_dim) :
           Returned("delaunay", callback, mapped,
                    delaunay_probes(self[1].m_dim, mapped, callback))

\* AStarNN_extended_hash / _cvector / _probe / _callback and extended_probes,
\* on some query vector.
AStarNN_extended(callback) ==
    /\ pc = "idle"
    /\ self # << >>
    /\ \E mapped \in Plane(self[1].m_dim) :
           Returned("extended", callback, mapped,
                    extended_probes(self[1].m_dim, self[1].m_probe_diff_stream, mapped,
                                    callback))

\* The client has read the outputs of the query; its callback object and
\* output arrays go out of scope.
Release ==
    /\ pc = "returned"
    /\ pc' = "idle"
    /\ query' = NoQuery
    /\ walk' = no_walk(Error_ok)
    /\ result' = Error_ok
    /\ UNCHANGED <<self, new_call, new_err, lattice, index, counted, threads, tables, costset, pointset, pqueue, origin>>

Next ==
    \/ \E dim \in 0..MaxDim, packing_radius \in {-1, 0, 1},
          num_shells \in (0..MaxShells) \cup {MAX_NUM_SHELLS + 1} :
            AStarNN_new(dim, packing_radius, num_shells)
    \/ AStarNN_delete
    \/ \E callback \in Callbacks : AStarNN_nearest(callback)
    \/ \E callback \in Callbacks : AStarNN_delaunay(callback)
    \/ \E callback \in Callbacks : AStarNN_extended(callback)
    \/ Release

Spec == Init /\ [][Next]_vars

\* The callback objects that never fail.
Reliable == {callback \in Callbacks : callback.fail_at = 0}

\* A client that creates the engine with n = 3, packing radius 1 and
\* numShells = 2 and makes extended queries on it.
NextN3S2 ==
    \/ AStarNN_new(3, 1, 2)
    \/ AStarNN_delete
    \/ \E callback \in Reliable : AStarNN_extended(callback)
    \/ Release

SpecN3S2 == Init /\ [][NextN3S2]_vars

\* A client that creates engines of up to MaxProbeDim dimensions and
\* MaxProbeShells shells and makes nearest queries on them.
NextProbes ==
    \/ \E dim \in 1..MaxProbeDim, num_shells \in 0..MaxProbeShells :
            AStarNN_new(dim, 1, num_shells)
    \/ AStarNN_delete
    \/ \E callback \in Reliable : AStarNN_nearest(callback)
    \/ Release

SpecProbes == Init /\ [][NextProbes]_vars

\* The c-vectors a client passes to the static helpers: any integers of
\* magnitude up to MaxCElem, whatever their sum.
CVectors(dim) == {Vec(f, dim) : f \in [0..dim -> (0 - MaxCElem)..MaxCElem]}

\* AStar_cvector_k_to_lattice_point_in_lattice_space(dim, c, k, out_v).
AStar_cvector_k_to_lattice_point_in_lattice_space(dim, k) ==
    /\ lattice = NoLatticeCall
    /\ \E c \in CVectors(dim) :
           lattice' = [op |-> "cvector_k_to", dim |-> dim, c |-> c, k |-> k,
                       v_out |-> cvector_k_to_lattice_point_in_lattice_space(dim, c, k)]
    /\ UNCHANGED <<self, new_call, new_err, pc, query, walk, result, index, counted, threads, tables, costset, pointset, pqueue, origin>>

\* AStar_cvector_to_lattice_point_in_lattice_space(dim, c, out_v); k is the
\* value of the local k after the first loop.
AStar_cvector_to_lattice_point_in_lattice_space(dim) ==
    /\ lattice = NoLatticeCall
    /\ \E c \in CVectors(dim) :
           lattice' = [op |-> "cvector_to", dim |-> dim, c |-> c, k |-> derived_k(dim, c),
                       v_out |-> cvector_to_lattice_point_in_lattice_space(dim, c)]
    /\ UNCHANGED <<self, new_call, new_err, pc, query, walk, result, index, counted, threads, tables, costset, pointset, pqueue, origin>>

\* The client has read the output of the static helper; its arrays go out
\* of scope.
ReleaseLattice ==
    /\ lattice # NoLatticeCall
    /\ lattice' = NoLatticeCall
    /\ UNCHANGED <<self, new_call, new_err, pc, query, walk, result, index, counted, threads, tables, costset, pointset, pqueue, origin>>

\* A client of the static c-vector helpers.
NextLattice ==
    \/ \E dim \in 1..MaxLatticeDim, k \in 0..MaxLatticeDim :
            AStar_cvector_k_to_lattice_point_in_lattice_space(dim, k)
    \/ \E dim \in 1..MaxLatticeDim : AStar_cvector_to_lattice_point_in_lattice_space(dim)
    \/ ReleaseLattice

SpecLattice == Init /\ [][NextLattice]_vars

\* new AStarIndex<T>(dim, packing_radius, num_shells): m_hash is constructed,
\* the map is empty.
AStarIndex_new(dim, num_shells) ==
    /\ index = << >>
    /\ \E made \in {AStarNN_ctor(dim, 1, num_shells)} :
           /\ made.err = Error_ok
           /\ index' = <<[m_hash |-> made.object, m_map |-> << >>, m_num_elements |-> 0]>>
    /\ UNCHANGED <<self, new_call, new_err, pc, query, walk, result, lattice, counted, threads, tables, costset, pointset, pqueue, origin>>

\* index.put(vector, elem) with a new element, numbered by the client.
AStarIndex_put ==
    /\ index # << >>
    /\ counted = << >>
    /\ index[1].m_num_elements < MaxElements
    /\ \E mapped \in Plane(index[1].m_hash.m_dim) :
           index' = <<put(index[1], mapped, index[1].m_num_elements + 1)>>
    /\ UNCHANGED <<self, new_call, new_err, pc, query, walk, result, lattice, counted, threads, tables, costset, pointset, pqueue, origin>>

\* index.count_extended(vector) on some query vector.
AStarIndex_count_extended ==
    /\ index # << >>
    /\ counted = << >>
    /\ \E mapped \in Plane(index[1].m_hash.m_dim) :
           \E returned \in {count_extended(index[1], mapped)} :
               counted' = <<[mapped |-> mapped, err |-> returned.err,
                             count |-> returned.count]>>
    /\ UNCHANGED <<self, new_call, new_err, pc, query, walk, result, lattice, index, threads, tables, costset, pointset, pqueue, origin>>

\* The client has read the count.
ReleaseCount ==
    /\ counted # << >>
    /\ counted' = << >>
    /\ UNCHANGED <<self, new_call, new_err, pc, query, walk, result, lattice, index, threads, tables, costset, pointset, pqueue, origin>>

\* A client of the inverted index.
NextIndex ==
    \/ \E dim \in 1..MaxDim, num_shells \in 0..MaxShells : AStarIndex_new(dim, num_shells)
    \/ AStarIndex_put
    \/ AStarIndex_count_extended
    \/ ReleaseCount

SpecIndex == Init /\ [][NextIndex]_vars

\* AStarNN_new(dim, 1, 0, &self) for the engine the threads share.  The
\* constructor (num_probes, generate_probes, size_probe_stream,
\* generate_probe_diffs) calls none of _powers, ord and fill, and the steps
\* of the threads read only m_dim of the object, the one field kept here.
AStarNN_new_shared(dim) ==
    /\ self = << >>
    /\ self' = <<[m_dim |-> dim]>>
    /\ new_call' = <<[dim |-> dim, packing_radius |-> 1, num_shells |-> 0]>>
    /\ new_err' = Error_ok
    /\ UNCHANGED <<pc, query, walk, result, lattice, index, counted, threads, tables, costset, pointset, pqueue, origin>>

\* The process-wide table a query reads first: END_FILL in closest_point,
\* START_SORT_ORD in setK0.
first_table(type) == IF type = "nearest" THEN "END_FILL" ELSE "START_SORT_ORD"

\* A thread enters a query on the engine: _nearest_probe, _delaunay_probes or
\* _extended_probes, with a callback that takes hash codes or not.
ThreadQuery(t, type, need_hash) ==
    /\ self # << >>
    /\ threads[t].pc = "idle"
    /\ threads' = [threads EXCEPT ![t] =
                      [pc |-> "check", type |-> type, need_hash |-> need_hash,
                       table |-> first_table(type), ptr |-> 0]]
    /\ UNCHANGED <<self, new_call, new_err, pc, query, walk, result, lattice, index,
                   counted, tables, costset, pointset, pqueue, origin>>

\* if (dim <= m_dim) return m_x in _powers, ord or fill: the thread gets the
\* array as it is, or goes on to resize it.
TableCheck(t) ==
    /\ threads[t].pc = "check"
    /\ threads' = [threads EXCEPT ![t] =
                      IF self[1].m_dim <= tables[threads[t].table].m_dim
                      THEN [@ EXCEPT !.pc = "copy", !.ptr = tables[threads[t].table].block]
                      ELSE [@ EXCEPT !.pc = "realloc"]]
    /\ UNCHANGED <<self, new_call, new_err, pc, query, walk, result, lattice, index,
                   counted, tables, costset, pointset, pqueue, origin>>

\* m_x = realloc(m_x, ...): the array grows in place or moves to a new block,
\* which frees the old one.
TableRealloc(t) ==
    /\ threads[t].pc = "realloc"
    /\ \E moved \in {0, 1} :
           tables' = [tables EXCEPT ![threads[t].table].block =
                                       IF @ < MaxBlocks THEN @ + moved ELSE @]
    /\ threads' = [threads EXCEPT ![t].pc = "fill"]
    /\ UNCHANGED <<self, new_call, new_err, pc, query, walk, result, lattice, index,
                   counted, costset, pointset, pqueue, origin>>

\* The for loop that writes the elements m_dim + 1 .. dim, then m_dim = dim
\* and return m_x.
TableFill(t) ==
    /\ threads[t].pc = "fill"
    /\ tables' = [tables EXCEPT ![threads[t].table].m_dim = self[1].m_dim]
    /\ threads' = [threads EXCEPT ![t].pc = "copy",
                                  ![t].ptr = tables[threads[t].table].block]
    /\ UNCHANGED <<self, new_call, new_err, pc, query, walk, result, lattice, index,
                   counted, costset, pointset, pqueue, origin>>

\* The thread reads the array through the pointer it was given (memcpy in
\* closest_point and setK0, the loop of makeOrdered); then an extended query
\* whose callback takes hash codes goes on to makeOrdered, and any other
\* query is over.
TableCopy(t) ==
    /\ threads[t].pc = "copy"
    /\ threads' = [threads EXCEPT ![t] =
                      IF /\ threads[t].type = "extended" /\ threads[t].need_hash
                         /\ threads[t].table = "START_SORT_ORD"
                      THEN [@ EXCEPT !.pc = "check", !.table = "POW_RADIX", !.ptr = 0]
                      ELSE IdleThread]
    /\ UNCHANGED <<self, new_call, new_err, pc, query, walk, result, lattice, index,
                   counted, tables, costset, pointset, pqueue, origin>>

\* A client that creates an engine and runs queries on it from its threads.
NextThreads ==
    \/ \E dim \in {initial_dim, initial_dim + 1} : AStarNN_new_shared(dim)
    \/ \E t \in Threads, type \in {"nearest", "delaunay", "extended"},
          need_hash \in BOOLEAN : ThreadQuery(t, type, need_hash)
    \/ \E t \in Threads : TableCheck(t)
    \/ \E t \in Threads : TableRealloc(t)
    \/ \E t \in Threads : TableFill(t)
    \/ \E t \in Threads : TableCopy(t)

SpecThreads == Init /\ [][NextThreads]_vars

(***************************************************************************)
(* Properties.  In a state with pc = "returned", the engine is self[1],    *)
(* the query just made is query, and walk and result are what it did.      *)
(***************************************************************************)
\* A query of the given type has just returned.
Completed(type) == pc = "returned" /\ query.type = type

\* The callback of the query never fails: it is no user function, or the
\* user function returns 0 at every match.
NeverFails == query.callback.fail_at = 0

\* The callback interface of the query.
Shape == Switcher(query.callback)

\* The number of segments of a probe diff stream: each ends with its second
\* STREAM_MARK.
Segments(stream) == Cardinality({i \in 1..Len(stream) : stream[i] = STREAM_MARK}) \div 2

\* What an extended query must deliver at its first match, given the result
\* k0 of setK0 on the query vector.
FirstOfExtended(k0) ==
    delivered(self[1].m_dim, Shape, Hash_hash(self[1].m_dim, k0.c), 0, k0.c)

\* C1: an extended query whose callback never fails invokes match exactly
\* num_probes() times, once for probe 0 and once per segment of the diff
\* stream; it stops exactly at the end of the stream and never reads past it;
\* and its first match has k = 0 and the c-vector setK0 produced.
C1_ExtendedWalksWholeStream ==
    (Completed("extended") /\ NeverFails) =>
        /\ result = Error_ok
        /\ ~walk.overrun
        /\ self[1].m_num_probes = num_probes(self[1].m_dim, self[1].m_num_shells)
        /\ Len(walk.matches) = self[1].m_num_probes
        /\ Len(walk.matches) = 1 + Segments(self[1].m_probe_diff_stream)
        /\ walk.pos = Len(self[1].m_probe_diff_stream)
        /\ walk.matches[1] = FirstOfExtended(setK0(self[1].m_dim, query.mapped, 1))

\* An extended query on an engine with a shell beyond the first orbit has
\* walked its whole stream, for a query vector that setK0 has to adjust.
C1_Witness ==
    /\ Completed("extended") /\ NeverFails
    /\ self[1].m_num_probes > self[1].m_dim + 1
    /\ Len(walk.matches) = self[1].m_num_probes
    /\ walk.pos = Len(self[1].m_probe_diff_stream)
    /\ setK0(self[1].m_dim, query.mapped, 1).h # 0

\* The lattice points in the box of the model: the integer vectors with sum
\* zero whose coordinates are all congruent modulo dim + 1.
LatticeBox == MaxDim * MaxCoord

LatticePoints(dim) ==
    {p \in [0..dim -> (0 - LatticeBox)..LatticeBox] :
        /\ Sum(p, dim) = 0
        /\ \A i \in 0..dim : (p[i] - p[0]) % (dim + 1) = 0}

\* The squared Euclidean distance, in units of 1 / Den^2, from the integer
\* vector p to the vector with the numerators v over Den.
Dist2(dim, p, v) == Sum([i \in 0..dim |-> (Den * p[i] - v[i]) * (Den * p[i] - v[i])], dim)

\* C2: the lattice point cvector_k_to_lattice_point_in_lattice_space gives
\* for the (c, k) of closest_point is a nearest lattice point to the query
\* vector: no lattice point is nearer.
C2_NearestPointIsNearest ==
    (Completed("nearest") /\ Shape = "QueryCallback_Point" /\ result = Error_ok) =>
        \A p \in LatticePoints(self[1].m_dim) :
            Dist2(self[1].m_dim, walk.matches[1].lattice_point, query.mapped)
                <= Dist2(self[1].m_dim, p, query.mapped)

\* The vertices a Delaunay query delivered: the c-vectors, or the lattice
\* points for a point callback.
Vertex(i) ==
    IF Shape = "QueryCallback_Point" THEN walk.matches[i].lattice_point
    ELSE walk.matches[i].c

\* C3: a Delaunay query whose callback never fails invokes match exactly
\* n + 1 times, with k = 0, 1, ..., n in that order, and the vertices it
\* delivers are pairwise distinct.
C3_DelaunayVertices ==
    (Completed("delaunay") /\ NeverFails) =>
        /\ Len(walk.matches) = self[1].m_dim + 1
        /\ \A i \in 1..Len(walk.matches) :
              Shape \in {"QueryCallback", "QueryCallback_CVector"} => walk.matches[i].k = i - 1
        /\ \A i, j \in 1..Len(walk.matches) :
              (Shape # "QueryCallback_Hash" /\ i # j) => Vertex(i) # Vertex(j)

\* The weights of a convex combination of dim + 1 points, as numerators over
\* (dim + 1) * Den: the barycentric coordinates of a vector with numerators
\* over Den in a Delaunay cell are multiples of 1 / ((dim + 1) * Den).
Weights(dim) == [0..dim -> 0..((dim + 1) * Den)]

\* v (numerators over Den) is the combination with the weights w of the
\* lattice points the walk delivered.
Combines(dim, w, v) ==
    /\ Sum(w, dim) = (dim + 1) * Den
    /\ \A i \in 0..dim :
          Sum([k \in 0..dim |-> w[k] * Den * walk.matches[k + 1].lattice_point[i]], dim)
              = (dim + 1) * Den * v[i]

\* C4: the query vector is a convex combination of the n + 1 lattice points
\* a Delaunay query delivers for it: they form a simplex that contains it.
C4_VerticesContainVector ==
    (Completed("delaunay") /\ Shape = "QueryCallback_Point" /\ result = Error_ok) =>
        \E w \in Weights(self[1].m_dim) : Combines(self[1].m_dim, w, query.mapped)

\* C5: the hash nearest_hash returns for a query vector is one of the first
\* n + 1 hashes an extended query delivers for the same vector.
C5_NearestHashInFirstOrbit ==
    (/\ Completed("extended") /\ NeverFails
     /\ Shape \in {"QueryCallback", "QueryCallback_Hash"}) =>
        \E i \in 1..(self[1].m_dim + 1) :
            /\ i <= Len(walk.matches)
            /\ walk.matches[i].hash_code = nearest_hash(self[1].m_dim, query.mapped)

\* The lattice points nearest to the vector with the numerators v over Den.
Nearest(dim, v) ==
    {p \in LatticePoints(dim) :
        \A q \in LatticePoints(dim) : Dist2(dim, p, v) <= Dist2(dim, q, v)}

\* An extended query delivered the hash of nearest_hash in its first orbit
\* but not first, for a query vector on the boundary of two Voronoi cells.
C5_Witness ==
    /\ Completed("extended") /\ NeverFails /\ Shape = "QueryCallback_Hash"
    /\ walk.matches[1].hash_code # nearest_hash(self[1].m_dim, query.mapped)
    /\ \E i \in 2..(self[1].m_dim + 1) :
          walk.matches[i].hash_code = nearest_hash(self[1].m_dim, query.mapped)
    /\ Cardinality(Nearest(self[1].m_dim, query.mapped)) > 1

\* The sum of c[i] * RADIX^i as a Hash_t, a negative sum sign-extended.
DirectHash(dim, c) == ToHash(Sum([i \in 0..dim |-> c[i] * RADIX^i], dim))

\* Incrementing c[order[l]] changes the hash of c by ordered_powers[l].
HashMovesByPower(dim, c, order, l) ==
    Hash_hash(dim, [c EXCEPT ![order[l]] = @ + 1])
        = HashAdd(Hash_hash(dim, c), makeOrdered(dim, order)[l])

\* C6: at every match of an extended query with the full callback the rolling
\* hash_code is Hash::hash of the rolling c-vector, which is the sum of
\* c[i] * 31^i modulo 2^64; and for the order of the walk and every column l,
\* incrementing c[order[l]] changes the hash by ordered_powers[l].
C6_RollingHashIsHashOfC ==
    (Completed("extended") /\ Shape = "QueryCallback") =>
        \A i \in 1..Len(walk.matches) :
            /\ walk.matches[i].hash_code = Hash_hash(self[1].m_dim, walk.matches[i].c)
            /\ walk.matches[i].hash_code = DirectHash(self[1].m_dim, walk.matches[i].c)
            /\ \A l \in 0..self[1].m_dim :
                  HashMovesByPower(self[1].m_dim, walk.matches[i].c,
                                   setK0(self[1].m_dim, query.mapped, 1).order, l)

\* An extended query with the full callback went beyond the first orbit with
\* an order that is not the identity and a negative element in a c-vector.
C6_Witness ==
    /\ Completed("extended") /\ Shape = "QueryCallback" /\ NeverFails
    /\ Len(walk.matches) > self[1].m_dim + 1
    /\ setK0(self[1].m_dim, query.mapped, 1).order # StartSortOrd(self[1].m_dim)
    /\ \E i \in 1..Len(walk.matches) : \E d \in 0..self[1].m_dim : walk.matches[i].c[d] < 0

\* C7: at every match that delivers a c-vector, in the three queries, k is
\* the remainder of c: 0 <= k <= n and k = (-sum(c)) mod (n + 1).
C7_KIsRemainderOfC ==
    (pc = "returned" /\ Shape \in {"QueryCallback", "QueryCallback_CVector"}) =>
        \A i \in 1..Len(walk.matches) :
            /\ walk.matches[i].k \in 0..self[1].m_dim
            /\ walk.matches[i].k
                   = (0 - Sum(walk.matches[i].c, self[1].m_dim)) % (self[1].m_dim + 1)

\* An extended query delivered the c-vectors of two orbits: in the second
\* orbit the remainders read from the stream run down to 0.
C7_Witness ==
    /\ Completed("extended") /\ Shape = "QueryCallback_CVector"
    /\ Len(walk.matches) = 2 * (self[1].m_dim + 1)
    /\ walk.matches[self[1].m_dim + 2].k = self[1].m_dim
    /\ walk.matches[Len(walk.matches)].k = 0

\* C8: no query fails with Error_insufficient_buffers, whatever its type,
\* its callback shape and its query vector.
C8_NoInsufficientBuffers ==
    (pc = "returned" /\ NeverFails) => result # Error_insufficient_buffers

\* The number of matches of a query that nothing interrupts.
MatchesOf(type) ==
    CASE type = "nearest" -> 1
      [] type = "delaunay" -> self[1].m_dim + 1
      [] type = "extended" -> self[1].m_num_probes

\* The code a query returns when its user function returned the non-zero code.
Surfaced(code) == IF code \in 1..Error_unknown THEN code ELSE Error_in_callback

\* C9: when the user function of a C callback query returns a non-zero code
\* at a match, no further match is invoked and the query returns that code if
\* it is one of 1..7 and Error_in_callback otherwise; when every match returns
\* 0 the walk is whole and the query returns Error_ok.
C9_CallbackFailureInterrupts ==
    (pc = "returned" /\ query.callback.class = "AStarNN_CallUserFunction") =>
        IF query.callback.fail_at \in 1..MatchesOf(query.type)
        THEN /\ Len(walk.matches) = query.callback.fail_at
             /\ result = Surfaced(query.callback.code)
        ELSE /\ Len(walk.matches) = MatchesOf(query.type)
             /\ result = Error_ok

\* An extended query was interrupted at its second match by a user function
\* returning a code outside 1..7, with matches still to come.
C9_Witness ==
    /\ Completed("extended") /\ query.callback.class = "AStarNN_CallUserFunction"
    /\ query.callback.fail_at = 2 /\ query.callback.code > Error_unknown
    /\ Len(walk.matches) = 2 /\ self[1].m_num_probes > 2
    /\ result = Error_in_callback

\* The code AStarNN_new returns for the arguments call: the dimension is
\* checked first, then the number of shells, then the packing radius.
ExpectedNew(call) ==
    IF call.dim = 0 THEN Error_invalid_dim
    ELSE IF call.num_shells > MAX_NUM_SHELLS THEN Error_invalid_num_shells
    ELSE IF call.packing_radius <= 0 THEN Error_invalid_packing_radius
    ELSE Error_ok

\* After AStarNN_new: the code is the expected one, and the handle is an
\* engine if the code is Error_ok and null otherwise.
CreationErrors ==
    new_call # << >> =>
        /\ new_err = ExpectedNew(new_call[1])
        /\ (new_err = Error_ok) <=> (self # << >>)
        /\ self # << >> => /\ self[1].m_dim = new_call[1].dim
                           /\ self[1].m_num_shells = new_call[1].num_shells

\* The three codes of an invalid creation.
CreationCodes ==
    {Error_invalid_dim, Error_invalid_num_shells, Error_invalid_packing_radius}

\* C10 as stated: creation fails with Error_invalid_dim when n = 0, with
\* Error_invalid_num_shells when numShells > 30 and with
\* Error_invalid_packing_radius when the packing radius is <= 0, and succeeds
\* otherwise; a failed creation leaves the handle null; and no query returns
\* one of these three codes.
C10_NoQueryReturnsCreationCodes ==
    /\ CreationErrors
    /\ pc = "returned" => result \notin CreationCodes

\* C10, amended: creation as stated, and a query returns one of the three
\* codes only when its user function returned that code at a match.
C10_CreationCodesOnlyFromCallback ==
    /\ CreationErrors
    /\ (pc = "returned" /\ result \in CreationCodes) =>
          /\ query.callback.class = "AStarNN_CallUserFunction"
          /\ query.callback.fail_at = Len(walk.matches)
          /\ query.callback.code = result

\* A creation with n = 0 and numShells > 30 failed with Error_invalid_dim and
\* left the handle null.
C10_Witness ==
    /\ new_call # << >>
    /\ new_call[1].dim = 0 /\ new_call[1].num_shells > MAX_NUM_SHELLS
    /\ new_err = Error_invalid_dim
    /\ self = << >>

\* C11 as stated: in the three queries the walk of a hash-only callback
\* never writes to c once the origin is found, and the walk of a
\* c-vector-only callback never computes a hash.
C11_ShapesDoMinimumWork ==
    pc = "returned" =>
        /\ Shape = "QueryCallback_Hash" => walk.c_writes = 0
        /\ Shape = "QueryCallback_CVector" => walk.hash_ops = 0

\* C11, amended: the walk of a hash-only callback never writes to c in a
\* nearest and in an extended query, and in a Delaunay query it decrements
\* one element of c for each of the n vertices after the first (their hashes
\* are computed from c); the walk of a c-vector-only callback never computes
\* a hash in any query.
C11_ShapesDoTheirWork ==
    pc = "returned" =>
        /\ (Shape = "QueryCallback_Hash" /\ query.type # "delaunay") => walk.c_writes = 0
        /\ (Shape = "QueryCallback_Hash" /\ query.type = "delaunay") =>
               /\ walk.c_writes = self[1].m_dim
               /\ walk.hash_ops = self[1].m_dim + 1
        /\ Shape = "QueryCallback_CVector" => walk.hash_ops = 0

\* An extended query with a hash-only callback has walked beyond the first
\* orbit, updating the rolling hash and leaving c alone.
C11_Witness ==
    /\ Completed("extended") /\ Shape = "QueryCallback_Hash"
    /\ Len(walk.matches) > self[1].m_dim + 1
    /\ walk.hash_ops > 2
    /\ walk.c_writes = 0

\* The engine was created with n = 3, packing radius 1 and numShells = 2.
IsN3S2 ==
    /\ new_call = <<[dim |-> 3, packing_radius |-> 1, num_shells |-> 2]>>
    /\ new_err = Error_ok
    /\ self # << >>

\* C12 as stated: for the engine with n = 3, packing radius 1 and
\* numShells = 2, num_probes() is 4 * (PROBES_F[3][0] + PROBES_F[3][1] +
\* PROBES_F[3][2]) = 104 and an extended query makes exactly 104 matches.
C12_ProbesAreRowSum ==
    new_call = <<[dim |-> 3, packing_radius |-> 1, num_shells |-> 2]>> =>
        /\ IsN3S2
        /\ self[1].m_num_probes = 4 * (PROBES_F(3, 0) + PROBES_F(3, 1) + PROBES_F(3, 2))
        /\ Completed("extended") => Len(walk.matches) = 104

\* C12, amended: for that engine num_probes() is 4 * PROBES_F[2][0] = 16
\* (row min(n, numShells), column numShells - min(n, numShells)), and
\* an extended query makes exactly 16 matches.
C12_ProbesAreTableEntry ==
    new_call = <<[dim |-> 3, packing_radius |-> 1, num_shells |-> 2]>> =>
        /\ IsN3S2
        /\ self[1].m_num_probes = 4 * PROBES_F(2, 0)
        /\ self[1].m_num_probes = 16
        /\ Completed("extended") => (result = Error_ok /\ Len(walk.matches) = 16)

\* An extended query on the engine with n = 3 and numShells = 2 has made its
\* 16 matches with the full callback.
C12_Witness ==
    /\ IsN3S2
    /\ Completed("extended") /\ Shape = "QueryCallback"
    /\ Len(walk.matches) = 16
    /\ result = Error_ok

\* AStarNN_new has just been called with valid arguments: n >= 1,
\* numShells <= 30 and a positive packing radius.
Created ==
    /\ pc = "idle" /\ new_call # << >>
    /\ new_call[1].dim >= 1
    /\ new_call[1].num_shells <= MAX_NUM_SHELLS
    /\ new_call[1].packing_radius > 0

Min(a, b) == IF a < b THEN a ELSE b

\* The probe array generate_probes writes for the engine just created.
Probes == generate_probes(new_call[1].dim, new_call[1].num_shells)

\* C13: num_probes(n, numShells) = (n + 1) * num_zero_probes(n, numShells)
\* with num_zero_probes = PROBES_F[min(n, numShells)][numShells -
\* min(n, numShells)], and generate_probes emits exactly that many probes: it
\* neither overflows the probe array nor fails its count check.
C13_GeneratorFillsProbeArray ==
    Created =>
        /\ num_zero_probes(new_call[1].dim, new_call[1].num_shells)
              = PROBES_F(Min(new_call[1].dim, new_call[1].num_shells),
                         new_call[1].num_shells
                            - Min(new_call[1].dim, new_call[1].num_shells))
        /\ num_probes(new_call[1].dim, new_call[1].num_shells)
              = (new_call[1].dim + 1)
                   * num_zero_probes(new_call[1].dim, new_call[1].num_shells)
        /\ Probes.err = Error_ok
        /\ Len(Probes.probes) = num_probes(new_call[1].dim, new_call[1].num_shells)
        /\ new_err = Error_ok
        /\ self[1].m_num_probes = Len(Probes.probes)

\* An engine with more shells than dimensions and more than one orbit per
\* shell has been created.
C13_Witness ==
    /\ Created
    /\ new_call[1].num_shells > new_call[1].dim
    /\ new_call[1].dim > 1
    /\ new_err = Error_ok
    /\ Len(Probes.probes) > (new_call[1].num_shells + 1) * (new_call[1].dim + 1)

\* The probe diff stream generate_probe_diffs writes for the engine just
\* created.
Stream == generate_probe_diffs(new_call[1].dim, Probes.probes)

\* Entry i (from 0) of the flipped-order probe array: every second orbit of
\* dim + 1 probes is taken in reversed order.
Flipped(dim, probes, i) ==
    IF (i \div (dim + 1)) % 2 = 0 THEN probes[i + 1]
    ELSE probes[(i \div (dim + 1)) * (dim + 1) + (dim - (i % (dim + 1))) + 1]

\* The sum over the entries i..P-1 of the flipped-order array of the absolute
\* differences between an entry and the entry before it.
RECURSIVE SumAbsDiffs(_, _, _)
SumAbsDiffs(dim, probes, i) ==
    IF i >= Len(probes) THEN 0
    ELSE Sum([d \in 0..dim |->
                 Abs(Flipped(dim, probes, i)[d] - Flipped(dim, probes, i - 1)[d])], dim)
         + SumAbsDiffs(dim, probes, i + 1)

\* Replaying a column list from stream[pos] on c, each column moving c by
\* sign, up to and including the mark: the position after the mark and the
\* c-vector; ok is false if the list runs off the stream or names no column.
RECURSIVE ReplayCols(_, _, _, _, _)
ReplayCols(dim, stream, pos, c, sign) ==
    IF pos > Len(stream) THEN [ok |-> FALSE, pos |-> pos, c |-> c]
    ELSE IF stream[pos] = STREAM_MARK THEN [ok |-> TRUE, pos |-> pos + 1, c |-> c]
    ELSE IF stream[pos] \notin 0..dim THEN [ok |-> FALSE, pos |-> pos, c |-> c]
    ELSE ReplayCols(dim, stream, pos + 1, [c EXCEPT ![stream[pos]] = @ + sign], sign)

\* Replaying the segments for the entries i..P-1 from stream[pos] on c gives
\* the entries of the flipped-order array and ends at the end of the stream.
RECURSIVE Replays(_, _, _, _, _, _)
RECURSIVE ReplaysDecrements(_, _, _, _, _, _)
RECURSIVE ReplaysIncrements(_, _, _, _, _, _)
Replays(dim, probes, stream, pos, c, i) ==
    IF i >= Len(probes) THEN pos = Len(stream) + 1
    ELSE /\ pos <= Len(stream)
         /\ stream[pos] \in 0..dim
         /\ ReplaysDecrements(dim, probes, stream,
                              ReplayCols(dim, stream, pos + 1, c, -1), c, i)

ReplaysDecrements(dim, probes, stream, dec, c, i) ==
    /\ dec.ok
    /\ ReplaysIncrements(dim, probes, stream,
                         ReplayCols(dim, stream, dec.pos, dec.c, 1), c, i)

ReplaysIncrements(dim, probes, stream, inc, c, i) ==
    /\ inc.ok
    /\ inc.c = Flipped(dim, probes, i)
    /\ Replays(dim, probes, stream, inc.pos, inc.c, i + 1)

\* C14: the stream generate_probe_diffs writes has exactly
\* size_probe_stream = 3 * (P - 1) + sum of |diff| elements; every segment is
\* k, decrement columns, mark, increment columns, mark; and replaying the
\* stream from probe 0 gives every probe of the flipped-order probe array.
C14_StreamReplaysProbes ==
    Created =>
        /\ Len(Stream) = size_probe_stream(new_call[1].dim, Probes.probes)
        /\ Len(Stream) = 3 * (Len(Probes.probes) - 1)
                            + SumAbsDiffs(new_call[1].dim, Probes.probes, 1)
        /\ self[1].m_probe_diff_stream = Stream
        /\ Replays(new_call[1].dim, Probes.probes, Stream, 1, Probes.probes[1], 1)

\* The stream of an engine with several orbits, one of them reversed, has a
\* segment that both decrements and increments.
C14_Witness ==
    /\ Created
    /\ new_err = Error_ok
    /\ Len(Probes.probes) >= 3 * (new_call[1].dim + 1)
    /\ \E i \in 2..(Len(Stream) - 2) :
          /\ Stream[i] # STREAM_MARK /\ Stream[i + 1] = STREAM_MARK
          /\ Stream[i + 2] # STREAM_MARK
          /\ Stream[i - 1] # STREAM_MARK

\* Twice the cost of a c-vector, cost(c) = sum over i of
\* (dim + 1) / 2 * c[i]^2 - i * c[i].
Cost2(dim, c) == Sum([i \in 0..dim |-> (dim + 1) * c[i] * c[i] - 2 * i * c[i]], dim)

\* The remainder-zero probe of orbit o (from 0): the first of its block of
\* dim + 1 probes.
ZeroProbe(dim, probes, o) == probes[o * (dim + 1) + 1]

\* The number of orbits in the probe array.
NumOrbits(dim, probes) == Len(probes) \div (dim + 1)

\* C15: the orbits appear in non-decreasing shell order: the cost of the
\* remainder-zero probe of every orbit is at least that of the orbit before
\* it, and the first probe is the all-zero c-vector.
C15_OrbitsInShellOrder ==
    Created =>
        /\ Probes.err = Error_ok
        /\ Len(Probes.probes) >= new_call[1].dim + 1
        /\ \A d \in 0..new_call[1].dim : Probes.probes[1][d] = 0
        /\ \A o \in 1..(NumOrbits(new_call[1].dim, Probes.probes) - 1) :
              Cost2(new_call[1].dim, ZeroProbe(new_call[1].dim, Probes.probes, o))
                 >= Cost2(new_call[1].dim, ZeroProbe(new_call[1].dim, Probes.probes, o - 1))

\* An engine whose probe array has two orbits of one shell and orbits of
\* three different shells.
C15_Witness ==
    /\ Created
    /\ new_err = Error_ok
    /\ \E o \in 1..(NumOrbits(new_call[1].dim, Probes.probes) - 1) :
          Cost2(new_call[1].dim, ZeroProbe(new_call[1].dim, Probes.probes, o))
             = Cost2(new_call[1].dim, ZeroProbe(new_call[1].dim, Probes.probes, o - 1))
    /\ Cardinality({Cost2(new_call[1].dim, ZeroProbe(new_call[1].dim, Probes.probes, o)) :
                       o \in 0..(NumOrbits(new_call[1].dim, Probes.probes) - 1)}) >= 3

\* C16: in each query, of any type and with any callback, init is invoked
\* exactly once, with the query vector mapped to lattice space, and before
\* the first match of that query; no match is invoked before init.
C16_InitOnceBeforeMatches ==
    pc = "returned" =>
        walk.inits = <<[dim |-> self[1].m_dim, mapped |-> query.mapped, before |-> 0]>>

\* An extended query that made several matches after its init.
C16_Witness ==
    /\ Completed("extended")
    /\ Shape = "QueryCallback_Hash"
    /\ Len(walk.inits) = 1
    /\ Len(walk.matches) >= 2

\* cvector_to_point has just been called on a c-vector.
Converted == lattice.op = "cvector_to"

\* The remainder of the c-vector c: (-sum(c)) mod (dim + 1), in 0..dim.
Remainder(dim, c) == (0 - Sum(c, dim)) % (dim + 1)

\* C17: for any c-vector, whatever its sum, the point cvector_to_point
\* produces has integer coordinates and coordinate sum exactly 0.
C17_PointOnLatticePlane ==
    Converted =>
        /\ DOMAIN lattice.v_out = 0..lattice.dim
        /\ \A i \in 0..lattice.dim : lattice.v_out[i] \in Int
        /\ Sum(lattice.v_out, lattice.dim) = 0

\* A conversion of a c-vector whose sum is above 0, to a point that is not
\* the origin.
C17_Witness ==
    /\ Converted
    /\ Sum(lattice.c, lattice.dim) > 0
    /\ \E i \in 0..lattice.dim : lattice.v_out[i] # 0

\* C18: cvector_to_point derives the remainder as the non-negative value
\* k = (-sum(c)) mod (n + 1), so 0 <= k <= n for every c, and outputs
\* p[i] = -((n + 1) * c[i] + k); hence for every c it agrees with
\* cvector_k_to_point called with that reduced k.
C18_DerivesReducedK ==
    Converted =>
        /\ lattice.k = Remainder(lattice.dim, lattice.c)
        /\ lattice.k \in 0..lattice.dim
        /\ \A i \in 0..lattice.dim :
              lattice.v_out[i] = 0 - ((lattice.dim + 1) * lattice.c[i] + lattice.k)
        /\ lattice.v_out =
              cvector_k_to_lattice_point_in_lattice_space(
                  lattice.dim, lattice.c, Remainder(lattice.dim, lattice.c))

\* C18, amended: cvector_to_point derives k = -sum(c) without reducing it, so
\* 0 <= k <= n exactly when -n <= sum(c) <= 0, and outputs
\* p[i] = -((n + 1) * c[i] + k); it agrees with cvector_k_to_point called with
\* k = -sum(c), which is the call with the reduced k exactly when
\* -n <= sum(c) <= 0.
C18_DerivesUnreducedK ==
    Converted =>
        /\ lattice.k = 0 - Sum(lattice.c, lattice.dim)
        /\ lattice.k \in 0..lattice.dim
              <=> Sum(lattice.c, lattice.dim) \in (0 - lattice.dim)..0
        /\ \A i \in 0..lattice.dim :
              lattice.v_out[i] = 0 - ((lattice.dim + 1) * lattice.c[i] + lattice.k)
        /\ lattice.v_out =
              cvector_k_to_lattice_point_in_lattice_space(
                  lattice.dim, lattice.c, 0 - Sum(lattice.c, lattice.dim))
        /\ (lattice.v_out =
               cvector_k_to_lattice_point_in_lattice_space(
                   lattice.dim, lattice.c, Remainder(lattice.dim, lattice.c)))
              <=> Sum(lattice.c, lattice.dim) \in (0 - lattice.dim)..0

\* A conversion of a c-vector whose sum is below -n: the k derived is above n.
C18_Witness ==
    /\ Converted
    /\ Sum(lattice.c, lattice.dim) < 0 - lattice.dim
    /\ lattice.k > lattice.dim

\* A query that runs the Delaunay-origin step has just returned.
AfterSetK0 == Completed("delaunay") \/ Completed("extended")

\* What setK0 did in the query just made, with the buffers that query had
\* left for it.
K0 ==
    setK0(self[1].m_dim, query.mapped,
          IF query.type = "delaunay" THEN leading_buffs(query.callback, 5, 4)
          ELSE leading_buffs(query.callback, 7, 5))

\* The postcondition of setK0 on the vector v (numerators over Den).
SetK0Post(dim, v, k0) ==
    /\ Sum(k0.c, dim) = 0
    /\ \A i \in 0..dim : k0.xmod[i] = v[i] - (dim + 1) * Den * k0.c[i]
    /\ DOMAIN k0.order = 0..dim
    /\ {k0.order[i] : i \in 0..dim} = 0..dim
    /\ \A i \in 0..(dim - 1) : k0.xmod[k0.order[i]] <= k0.xmod[k0.order[i + 1]]

\* C19: for every lattice-space vector v on the plane sum(v) = 0, after
\* setK0, in each of its branches h = 0, h > 0 and h < 0: sum(c) = 0,
\* xmod[i] = v[i] - (n + 1) * c[i] for every i, order is a permutation of
\* 0..n, and xmod[order[0]] <= xmod[order[1]] <= ... <= xmod[order[n]].
C19_SetK0Postcondition ==
    (AfterSetK0 /\ K0.err = Error_ok) =>
        /\ Sum(query.mapped, self[1].m_dim) = 0
        /\ SetK0Post(self[1].m_dim, query.mapped, K0)

\* A query in which setK0 took the branch h < 0 and moved an element of c,
\* leaving an order that is not the sorted order of the rounded residuals.
C19_Witness ==
    /\ AfterSetK0
    /\ K0.err = Error_ok
    /\ K0.h < 0
    /\ K0.order # sort_order(Vec([i \in 0..self[1].m_dim |->
                                    query.mapped[i]
                                      - round_up(query.mapped[i], Den * (self[1].m_dim + 1))
                                          * (self[1].m_dim + 1) * Den], self[1].m_dim),
                             StartSortOrd(self[1].m_dim), self[1].m_dim + 1)

\* The hash sequence an extended query on the vector just counted emits.
Emitted ==
    extended_probes(index[1].m_hash.m_dim, index[1].m_hash.m_probe_diff_stream,
                    counted[1].mapped,
                    [class |-> "KeepHashes", fail_at |-> 0, code |-> 0]).matches

\* The sum of the lengths of the element lists stored under the hash codes
\* of the set hashes: each stored element counts once.
RECURSIVE StoredUnder(_, _, _)
StoredUnder(m_map, hashes, i) ==
    IF i > Len(m_map) THEN 0
    ELSE (IF m_map[i].hash_code \in hashes THEN Len(m_map[i].list) ELSE 0)
         + StoredUnder(m_map, hashes, i + 1)

\* The sum of count_hash over the hash sequence matches[i..].
RECURSIVE SumOfCounts(_, _)
SumOfCounts(matches, i) ==
    IF i > Len(matches) THEN 0
    ELSE count_hash(index[1], matches[i].hash_code) + SumOfCounts(matches, i + 1)

\* C20: after any sequence of put operations, count_extended(q) equals the
\* sum of count_hash(h) over the hash sequence extended(q) emits, and no
\* stored element is counted more than once: the hashes one extended query
\* emits are pairwise distinct.
C20_CountExtendedCountsOnce ==
    counted # << >> =>
        \A emitted \in {Emitted} :
            /\ counted[1].err = Error_ok
            /\ counted[1].count = SumOfCounts(emitted, 1)
            /\ \A i, j \in 1..Len(emitted) :
                  i # j => emitted[i].hash_code # emitted[j].hash_code
            /\ counted[1].count =
                  StoredUnder(index[1].m_map,
                              {emitted[i].hash_code : i \in 1..Len(emitted)}, 1)
            /\ counted[1].count <= index[1].m_num_elements

\* A count over an index holding two elements under one hash code, both
\* counted.
C20_Witness ==
    /\ counted # << >>
    /\ Len(index[1].m_map) = 1
    /\ Len(index[1].m_map[1].list) = 2
    /\ counted[1].count = 2

\* The thread t is resizing a process-wide table.
Resizing(t) == threads[t].pc \in {"realloc", "fill"}

\* The thread t reads a process-wide table through the pointer it holds.
Reading(t) == threads[t].pc = "copy"

\* C21: the process-wide tables grow at construction only: once an engine
\* has been constructed no query on it reallocates or writes them, so two
\* threads running queries on the same engine never reach a state where one
\* reallocates a table while the other reads it.
C21_TablesGrowAtConstructionOnly ==
    self # << >> =>
        /\ \A t \in Threads : ~Resizing(t)
        /\ \A t, u \in Threads :
              ~(t # u /\ Resizing(t) /\ Reading(u) /\ threads[t].table = threads[u].table)

\* The integer (dim + 1)-vectors with coordinate sum 0 and coordinates of
\* magnitude up to MaxProbeCElem.
ZeroSum(dim) ==
    {c \in [0..dim -> (0 - MaxProbeCElem)..MaxProbeCElem] : Sum(c, dim) = 0}

\* The vectors of box whose cost is one of the num_shells + 1 smallest
\* distinct costs of the vectors of box.
InFirstShells(dim, num_shells, box) ==
    {c \in box :
        Cardinality({Cost2(dim, b) : b \in {a \in box : Cost2(dim, a) < Cost2(dim, c)}})
            <= num_shells}

\* The remainder-zero probes of the probe array, in the order they were
\* passed to the processor.
ZeroProbes(dim, probes) ==
    [o \in 1..NumOrbits(dim, probes) |-> ZeroProbe(dim, probes, o - 1)]

\* C22: the remainder-zero probes generate_zero_probes passes to the
\* processor are exactly the integer (n + 1)-vectors with sum 0 whose cost
\* is one of the numShells + 1 smallest distinct cost values, each emitted
\* exactly once.  (The vectors found lie strictly inside the box searched,
\* and the cost is convex, so no vector outside the box has such a cost.)
C22_ZeroProbesAreFirstShells ==
    Created =>
        \A expected \in {InFirstShells(new_call[1].dim, new_call[1].num_shells,
                                       ZeroSum(new_call[1].dim))} :
            /\ \A c \in expected : \A d \in 0..new_call[1].dim : Abs(c[d]) < MaxProbeCElem
            /\ {ZeroProbes(new_call[1].dim, Probes.probes)[o] :
                    o \in 1..NumOrbits(new_call[1].dim, Probes.probes)} = expected
            /\ NumOrbits(new_call[1].dim, Probes.probes) = Cardinality(expected)
            /\ Len(Probes.probes) = NumOrbits(new_call[1].dim, Probes.probes)
                                       * (new_call[1].dim + 1)

\* An engine of three dimensions and three shells: its remainder-zero probes
\* lie in four shells and some shell holds several of them.
C22_Witness ==
    /\ Created
    /\ new_err = Error_ok
    /\ new_call[1].dim = 3
    /\ new_call[1].num_shells = 3
    /\ NumOrbits(3, Probes.probes) > 4

(***************************************************************************)
(* A client of CostSet: it makes a set that keeps num_to_keep costs and    *)
(* pushes costs into it.                                                   *)
(***************************************************************************)
MaxKeep == 3
MaxCost == 3
MaxPushes == 4

\* The costs the client pushes; the largest int is one of them.
CostValues == 0..MaxCost \cup {INT_MAX}

\* CostSet(num_to_keep) with num_to_keep >= 1, where the constructor returns.
CostSet_ctor(num_to_keep) ==
    /\ costset = << >>
    /\ costset' = <<[m_heap |-> CostSet_new(num_to_keep), pushed |-> {}, calls |-> 0,
                     new_cost |-> 0, in_set |-> FALSE,
                     before |-> CostSet_new(num_to_keep)]>>
    /\ UNCHANGED <<self, new_call, new_err, pc, query, walk, result, lattice, index, counted, threads, tables, pointset, pqueue, origin>>

\* seenCosts.pushUniqueSmall(new_cost).
CostSet_pushUniqueSmall(new_cost) ==
    /\ costset # << >>
    /\ costset[1].calls < MaxPushes
    /\ \E made \in {pushUniqueSmall(costset[1].m_heap, new_cost)} :
           costset' = <<[m_heap |-> made.m_heap,
                         pushed |-> costset[1].pushed \cup {new_cost},
                         calls |-> costset[1].calls + 1,
                         new_cost |-> new_cost, in_set |-> made.in_set,
                         before |-> costset[1].m_heap]>>
    /\ UNCHANGED <<self, new_call, new_err, pc, query, walk, result, lattice, index, counted, threads, tables, pointset, pqueue, origin>>

\* ~CostSet().
CostSet_dtor ==
    /\ costset # << >>
    /\ costset' = << >>
    /\ UNCHANGED <<self, new_call, new_err, pc, query, walk, result, lattice, index, counted, threads, tables, pointset, pqueue, origin>>

NextCostSet ==
    \/ \E num_to_keep \in 1..MaxKeep : CostSet_ctor(num_to_keep)
    \/ \E new_cost \in CostValues : CostSet_pushUniqueSmall(new_cost)
    \/ CostSet_dtor

SpecCostSet == Init /\ [][NextCostSet]_vars

\* The k smallest of the distinct values of S.
SmallestDistinct(S, k) == {x \in S : Cardinality({y \in S : y < x}) < k}

\* The values in the slots of the heap.
HeapValues(m_heap) == {m_heap[i] : i \in 1..Len(m_heap)}

\* C23: after any sequence of pushUniqueSmall calls on a CostSet that keeps
\* k >= 1 costs, every slot of the heap is at most its parent, the slots hold
\* the k smallest distinct values pushed so far once each and the largest int
\* elsewhere, the call returned true exactly when its value is one of the k
\* smallest distinct values pushed so far, itself included, and a call with a
\* value the heap held left the heap as it was.
C23_CostSetKeepsSmallest ==
    costset # << >> =>
        \A s \in {costset[1]} : \A k \in {Len(s.m_heap)} :
        \A kept \in {SmallestDistinct(s.pushed, k) \ {INT_MAX}} :
            /\ \A i \in 2..k : s.m_heap[i \div 2] >= s.m_heap[i]
            /\ HeapValues(s.m_heap) \ {INT_MAX} = kept
            /\ Cardinality({i \in 1..k : s.m_heap[i] # INT_MAX}) = Cardinality(kept)
            /\ s.calls > 0 =>
                   /\ s.in_set = (s.new_cost \in SmallestDistinct(s.pushed, k))
                   /\ s.new_cost \in HeapValues(s.before) => s.m_heap = s.before

\* A set that keeps three costs has been pushed four distinct costs, the last
\* of them smaller than the three it held, and a child of the root is the
\* larger of the two.
C23_Witness ==
    /\ costset # << >>
    /\ Len(costset[1].m_heap) = 3
    /\ Cardinality(costset[1].pushed) = 4
    /\ costset[1].in_set
    /\ costset[1].m_heap # costset[1].before
    /\ INT_MAX \notin HeapValues(costset[1].before)
    /\ costset[1].before[2] < costset[1].before[3]

(***************************************************************************)
(* A client of PointSet: it makes a set of a capacity, and clears it and   *)
(* inserts c-vectors of one dimension.                                     *)
(***************************************************************************)
MaxCapacity == 3
MaxSetDim == 2
MaxSetCElem == 1

\* The c-vectors the client inserts.
SetVectors(dim) == [0..dim -> 0..MaxSetCElem]

\* PointSet(capacity), for a client that inserts c-vectors of dimension dim.
PointSet_ctor(capacity, dim) ==
    /\ pointset = << >>
    /\ pointset' = <<[m_capacity |-> capacity, dim |-> dim, points |-> PointSet_clear,
                      inserted |-> {}, call |-> "PointSet", c |-> << >>,
                      is_new |-> FALSE, err |-> Error_ok, known |-> FALSE,
                      before |-> PointSet_clear]>>
    /\ UNCHANGED <<self, new_call, new_err, pc, query, walk, result, lattice, index, counted, threads, tables, costset, pqueue, origin>>

\* points.clear().
PointSet_call_clear ==
    /\ pointset # << >>
    /\ pointset' = <<[pointset[1] EXCEPT !.points = PointSet_clear, !.inserted = {},
                         !.call = "clear", !.c = << >>, !.is_new = FALSE,
                         !.err = Error_ok, !.known = FALSE,
                         !.before = pointset[1].points]>>
    /\ UNCHANGED <<self, new_call, new_err, pc, query, walk, result, lattice, index, counted, threads, tables, costset, pqueue, origin>>

\* points.insert(dim, c), with the dimension of every insert; known is
\* whether c was inserted since the last clear.
PointSet_call_insert(dim, c) ==
    /\ pointset # << >>
    /\ pointset[1].dim = dim
    /\ \E ins \in {PointSet_insert(pointset[1].points, pointset[1].m_capacity,
                                    pointset[1].dim, c)} :
           pointset' = <<[pointset[1] EXCEPT
                             !.points = ins.points,
                             !.inserted = IF ins.is_new THEN @ \cup {c} ELSE @,
                             !.call = "insert", !.c = c, !.is_new = ins.is_new,
                             !.err = ins.err, !.known = (c \in pointset[1].inserted),
                             !.before = pointset[1].points]>>
    /\ UNCHANGED <<self, new_call, new_err, pc, query, walk, result, lattice, index, counted, threads, tables, costset, pqueue, origin>>

\* ~PointSet().
PointSet_dtor ==
    /\ pointset # << >>
    /\ pointset' = << >>
    /\ UNCHANGED <<self, new_call, new_err, pc, query, walk, result, lattice, index, counted, threads, tables, costset, pqueue, origin>>

NextPointSet ==
    \/ \E capacity \in 1..MaxCapacity, dim \in 1..MaxSetDim : PointSet_ctor(capacity, dim)
    \/ PointSet_call_clear
    \/ \E dim \in 1..MaxSetDim : \E c \in SetVectors(dim) : PointSet_call_insert(dim, c)
    \/ PointSet_dtor

SpecPointSet == Init /\ [][NextPointSet]_vars

\* The c-vectors in the entries of the set.
Entries(points) == {points[e].m_c : e \in 1..Len(points)}

\* C24: for a PointSet of capacity C and c-vectors of one dimension, insert
\* returns true exactly when no equal c-vector has been inserted since the
\* last clear, whatever slots the c-vectors fall in, unless C c-vectors are in
\* the set already; then the insert of a new c-vector fails with Unknown and
\* leaves the entries and the size as they were.
C24_PointSetInsertsOnce ==
    pointset # << >> =>
        \A s \in {pointset[1]} :
            /\ Entries(s.points) = s.inserted
            /\ Len(s.points) = Cardinality(s.inserted)
            /\ Len(s.points) <= s.m_capacity
            /\ s.call = "insert" =>
                   /\ s.is_new = (~s.known /\ Len(s.before) < s.m_capacity)
                   /\ s.err = IF ~s.known /\ Len(s.before) >= s.m_capacity
                              THEN Error_unknown ELSE Error_ok
                   /\ s.err = Error_unknown => s.points = s.before
                   /\ s.known => s.points = s.before /\ s.err = Error_ok
                   /\ s.is_new => s.points = Append(s.before, s.points[Len(s.points)])
                                   /\ s.points[Len(s.points)].m_c = s.c

\* The insert of a new c-vector has failed with Unknown on a full set, two
\* of whose entries are in one slot.
C24_Witness ==
    /\ pointset # << >>
    /\ pointset[1].call = "insert"
    /\ pointset[1].err = Error_unknown
    /\ ~pointset[1].known
    /\ Len(pointset[1].points) = pointset[1].m_capacity
    /\ \E e, f \in 1..Len(pointset[1].points) :
           e # f /\ pointset[1].points[e].idx = pointset[1].points[f].idx

(***************************************************************************)
(* A client of PriorityQueue<P, T>: it adds pointers with priorities and   *)
(* polls.                                                                  *)
(***************************************************************************)
MaxQueue == 4
MaxPriority == 2
MaxData == 2

\* PriorityQueue(); obj and priority are the client's variables that poll
\* writes through pObj and pPriority.
PriorityQueue_ctor ==
    /\ pqueue = << >>
    /\ pqueue' = <<[m_data |-> << >>, call |-> "PriorityQueue", err |-> Error_ok,
                    obj |-> 0, priority |-> 0, before |-> << >>]>>
    /\ UNCHANGED <<self, new_call, new_err, pc, query, walk, result, lattice, index, counted, threads, tables, costset, pointset, origin>>

\* queue.add(to_add, priority).
PriorityQueue_call_add(to_add, priority) ==
    /\ pqueue # << >>
    /\ Len(pqueue[1].m_data) < MaxQueue
    /\ pqueue' = <<[pqueue[1] EXCEPT
                       !.m_data = PriorityQueue_add(pqueue[1].m_data, to_add, priority),
                       !.call = "add", !.err = Error_ok,
                       !.before = pqueue[1].m_data]>>
    /\ UNCHANGED <<self, new_call, new_err, pc, query, walk, result, lattice, index, counted, threads, tables, costset, pointset, origin>>

\* queue.poll(&obj, &priority): on an empty queue it throws Error_unknown
\* before anything is written.
PriorityQueue_call_poll ==
    /\ pqueue # << >>
    /\ IF Len(pqueue[1].m_data) > 0
       THEN \E polled \in {PriorityQueue_poll(pqueue[1].m_data)} :
               pqueue' = <<[pqueue[1] EXCEPT
                              !.m_data = polled.queue, !.call = "poll",
                              !.err = Error_ok, !.obj = polled.data,
                              !.priority = polled.priority,
                              !.before = pqueue[1].m_data]>>
       ELSE pqueue' = <<[pqueue[1] EXCEPT !.call = "poll", !.err = Error_unknown,
                                          !.before = pqueue[1].m_data]>>
    /\ UNCHANGED <<self, new_call, new_err, pc, query, walk, result, lattice, index, counted, threads, tables, costset, pointset, origin>>

\* ~PriorityQueue().
PriorityQueue_dtor ==
    /\ pqueue # << >>
    /\ pqueue' = << >>
    /\ UNCHANGED <<self, new_call, new_err, pc, query, walk, result, lattice, index, counted, threads, tables, costset, pointset, origin>>

NextQueue ==
    \/ PriorityQueue_ctor
    \/ \E to_add \in 1..MaxData, priority \in (0 - MaxPriority)..0 :
           PriorityQueue_call_add(to_add, priority)
    \/ PriorityQueue_call_poll
    \/ PriorityQueue_dtor

SpecQueue == Init /\ [][NextQueue]_vars

\* The number of elements of the queue q that equal e.
CountIn(q, e) == Cardinality({i \in 1..Len(q) : q[i] = e})

\* The queue q is the queue before with one e more (by = 1) or less (by = -1).
QueueChangedBy(q, before, e, by) ==
    /\ Len(q) = Len(before) + by
    /\ \A i \in 1..Len(before) :
           CountIn(q, before[i]) = CountIn(before, before[i]) + IF before[i] = e THEN by ELSE 0
    /\ by = 1 => CountIn(q, e) = CountIn(before, e) + 1

\* C25: after every add and poll the priority of each element of the heap is
\* at most that of its parent; poll on a queue that is not empty removes one
\* element and returns it, and no element that was in the queue had a higher
\* priority; poll on an empty queue fails with Unknown and leaves the queue
\* and the client's variables as they were.
C25_QueuePollsMaximum ==
    pqueue # << >> =>
        \A s \in {pqueue[1]} :
            /\ \A i \in 1..(Len(s.m_data) - 1) :
                   s.m_data[((i - 1) \div 2) + 1].priority >= s.m_data[i + 1].priority
            /\ s.call = "poll" /\ Len(s.before) > 0 =>
                   /\ s.err = Error_ok
                   /\ \A i \in 1..Len(s.before) : s.before[i].priority <= s.priority
                   /\ \E i \in 1..Len(s.before) :
                          s.before[i] = [data |-> s.obj, priority |-> s.priority]
                   /\ QueueChangedBy(s.m_data, s.before,
                                     [data |-> s.obj, priority |-> s.priority], 0 - 1)
            /\ s.call = "poll" /\ Len(s.before) = 0 =>
                   s.err = Error_unknown /\ s.m_data = s.before
            /\ s.call = "add" =>
                   \E i \in 1..Len(s.m_data) :
                       QueueChangedBy(s.m_data, s.before, s.m_data[i], 1)

\* A queue of four elements of three priorities, the right child of the head
\* above the left one, has been polled.
C25_Witness ==
    /\ pqueue # << >>
    /\ pqueue[1].call = "poll"
    /\ Len(pqueue[1].before) = 4
    /\ pqueue[1].before[3].priority > pqueue[1].before[2].priority
    /\ Cardinality({pqueue[1].before[i].priority : i \in 1..4}) = 3

\* C26: the probe array is made of blocks of n + 1 probes, one block for each
\* remainder-zero probe the collector was passed: the first probe of a block
\* is that probe, of coordinate sum 0, and every other probe of the block is
\* the probe before it rotated right by one position with 1 subtracted from
\* its first slot; so the probe at position k of a block has coordinate sum
\* -k, and the probe at array index i has remainder i mod (n + 1).
C26_OrbitsAreRotations ==
    Created =>
        \A dim \in {new_call[1].dim} : \A probes \in {Probes.probes} :
            /\ Len(probes) = NumOrbits(dim, probes) * (dim + 1)
            /\ NumOrbits(dim, probes) = num_zero_probes(dim, new_call[1].num_shells)
            /\ \A i \in 0..(Len(probes) - 1) :
                   /\ Sum(probes[i + 1], dim) = 0 - (i % (dim + 1))
                   /\ Remainder(dim, probes[i + 1]) = i % (dim + 1)
                   /\ i % (dim + 1) # 0 =>
                          /\ probes[i + 1][0] = probes[i][dim] - 1
                          /\ \A d \in 1..dim : probes[i + 1][d] = probes[i][d - 1]

\* An engine of three dimensions whose probe array has an orbit that starts
\* from a probe other than the origin, with a probe of that orbit that has a
\* coordinate above 0 and a coordinate below 0.
C26_Witness ==
    /\ Created
    /\ new_err = Error_ok
    /\ new_call[1].dim = 3
    /\ \E i \in 5..Len(Probes.probes) :
          /\ (i - 1) % 4 # 0
          /\ \E d, e \in 0..3 : Probes.probes[i][d] > 0 /\ Probes.probes[i][e] < 0

RECURSIVE AfterMarks(_, _, _)
\* The position in the stream after the next marks marks from pos on.
AfterMarks(stream, pos, marks) ==
    IF marks = 0 \/ pos > Len(stream) THEN pos
    ELSE AfterMarks(stream, pos + 1, IF stream[pos] = STREAM_MARK THEN marks - 1 ELSE marks)

RECURSIVE StreamKs(_, _)
\* The values k of the segments of the stream from pos on, a segment being k,
\* columns, a mark, columns, a mark.
StreamKs(stream, pos) ==
    IF pos > Len(stream) THEN << >>
    ELSE <<stream[pos]>> \o StreamKs(stream, AfterMarks(stream, pos + 1, 2))

\* C27: for the probe count P of an engine, a multiple of n + 1, flipIdx maps
\* [0, P) onto itself and is its own inverse; it leaves the indexes of every
\* even-numbered orbit where they are and reverses the n + 1 indexes of every
\* odd-numbered orbit within that orbit, so the diff stream visits every probe
\* once; and the k written for stream entry i is flipIdx(i) mod (n + 1).
C27_FlipIdxReversesOddOrbits ==
    (Created /\ new_err = Error_ok) =>
        \A dimp \in {new_call[1].dim + 1} : \A P \in {Len(Probes.probes)} :
            /\ P % dimp = 0
            /\ \A i \in 0..(P - 1) : \A f \in {flipIdx(i, dimp, dimp * 2)} :
                   /\ f \in 0..(P - 1)
                   /\ flipIdx(f, dimp, dimp * 2) = i
                   /\ f \div dimp = i \div dimp
                   /\ (i \div dimp) % 2 = 0 => f = i
                   /\ (i \div dimp) % 2 = 1 => f % dimp = (dimp - 1) - (i % dimp)
            /\ {flipIdx(i, dimp, dimp * 2) : i \in 0..(P - 1)} = 0..(P - 1)
            /\ \A ks \in {StreamKs(self[1].m_probe_diff_stream, 1)} :
                   /\ Len(ks) = P - 1
                   /\ \A i \in 1..(P - 1) : ks[i] = flipIdx(i, dimp, dimp * 2) % dimp

\* An engine of three dimensions with an odd number of orbits, five or more:
\* the last orbit is even-numbered and the one before it is reversed.
C27_Witness ==
    /\ Created
    /\ new_err = Error_ok
    /\ new_call[1].dim = 3
    /\ NumOrbits(3, Probes.probes) >= 5
    /\ NumOrbits(3, Probes.probes) % 2 = 1

\* sortord in the query just made: the rounded residuals of the query vector
\* sorted, before setK0 moves any element of c.
K0SortOrd ==
    sort_order(Vec([i \in 0..self[1].m_dim |->
                      query.mapped[i]
                        - round_up(query.mapped[i], Den * (self[1].m_dim + 1))
                            * (self[1].m_dim + 1) * Den], self[1].m_dim),
               StartSortOrd(self[1].m_dim), self[1].m_dim + 1)

\* The positions of order a copy writes, and the positions of sortord it
\* reads.
Written(copy) == copy.dst..(copy.dst + copy.count - 1)
ReadFrom(copy) == copy.src..(copy.src + copy.count - 1)

\* C28: in setK0 with h < 0, and with h > 0, every element the two copies
\* write is one of order[0..n] and every element they read is one of
\* sortord[0..n]; together they write each position of order[0..n] exactly
\* once; and order is sortord rotated: sortord[part..n] followed by
\* sortord[0..part-1], with part = n + 1 + h for h < 0 and part = h for
\* h > 0.
C28_CopiesStayInOrder ==
    (AfterSetK0 /\ K0.err = Error_ok /\ K0.h # 0) =>
        \A dim \in {self[1].m_dim} : \A k0 \in {K0} :
        \A copies \in {setK0_copies(dim, k0.h)} :
        \A part \in {IF k0.h < 0 THEN dim + 1 + k0.h ELSE k0.h} :
            /\ \A n \in 1..2 :
                   /\ copies[n].count >= 0
                   /\ Written(copies[n]) \subseteq 0..dim
                   /\ ReadFrom(copies[n]) \subseteq 0..dim
            /\ Written(copies[1]) \cup Written(copies[2]) = 0..dim
            /\ Written(copies[1]) \cap Written(copies[2]) = {}
            /\ part \in 1..dim
            /\ \A i \in 0..dim : k0.order[i] = K0SortOrd[(i + part) % (dim + 1)]
            /\ k0.order = setK0_copy(EndFill(dim), K0SortOrd, copies)

\* A query on a two-dimensional engine in which setK0 found h < 0 and
\* rotated the sorted order.
C28_Witness ==
    /\ AfterSetK0
    /\ K0.err = Error_ok
    /\ K0.h < 0
    /\ self[1].m_dim = 2
    /\ K0.order # K0SortOrd
    /\ K0.order[2] = K0SortOrd[1]

(***************************************************************************)
(* A client of AStarLattice::setK0: it finds the Delaunay origin of        *)
(* vectors of up to MaxSortDim dimensions, with a buffer to spare.         *)
(***************************************************************************)
MaxSortDim == 7
MaxSortCoord == 1

\* The vectors the client passes: the points of the plane sum = 0 with the
\* first dim coordinates in -MaxSortCoord..MaxSortCoord (over Den).
SortPlane(dim) ==
    {Vec([i \in 0..dim |-> IF i < dim THEN f[i] ELSE 0 - SumTo(f, dim - 1)], dim) :
        f \in [0..(dim - 1) -> (0 - MaxSortCoord)..MaxSortCoord]}

\* AStarLattice::setK0(dim, v, xmod, c, order, buff).
AStarLattice_setK0(dim) ==
    /\ origin = << >>
    /\ \E v \in SortPlane(dim) :
           \E k0 \in {setK0(dim, v, 1)} :
               origin' = <<[dim |-> dim, v |-> v, h |-> k0.h, xmod |-> k0.xmod,
                            c |-> k0.c, order |-> k0.order]>>
    /\ UNCHANGED <<self, new_call, new_err, pc, query, walk, result, lattice, index, counted, threads, tables, costset, pointset, pqueue>>

\* The client has read xmod, c and order; its arrays go out of scope.
ReleaseOrigin ==
    /\ origin # << >>
    /\ origin' = << >>
    /\ UNCHANGED <<self, new_call, new_err, pc, query, walk, result, lattice, index, counted, threads, tables, costset, pointset, pqueue>>

NextOrigin ==
    \/ \E dim \in 1..MaxSortDim : AStarLattice_setK0(dim)
    \/ ReleaseOrigin

SpecOrigin == Init /\ [][NextOrigin]_vars

\* order is a permutation of 0..dim along which xmod does not decrease.
OrderSorts(dim, xmod, order) ==
    /\ DOMAIN order = 0..dim
    /\ {order[i] : i \in 0..dim} = 0..dim
    /\ \A i \in 0..(dim - 1) : xmod[order[i]] <= xmod[order[i + 1]]

\* Indexes with equal xmod appear in order in increasing index order.
OrderStable(dim, xmod, order) ==
    \A i \in 0..(dim - 1) : xmod[order[i]] = xmod[order[i + 1]] => order[i] < order[i + 1]

\* C29: when setK0 finds h = 0, for every n, including n >= 6 where the array
\* of n + 1 elements is above the insertion sort threshold, order is a
\* permutation of 0..n, xmod does not decrease along it, and indexes with
\* equal xmod appear in increasing index order.
C29_OrderIsStableSort ==
    (origin # << >> /\ origin[1].h = 0) =>
        /\ OrderSorts(origin[1].dim, origin[1].xmod, origin[1].order)
        /\ OrderStable(origin[1].dim, origin[1].xmod, origin[1].order)

\* The walk of a Delaunay query with the callback and on the vector of the
\* query just made.
DelaunayOfQuery == delaunay_probes(self[1].m_dim, query.mapped, query.callback)

\* C30: for every engine and query vector, and every callback that takes the
\* hash, k or the c-vector, the first n + 1 matches of an extended query are
\* the n + 1 matches of a Delaunay query on the same vector, in the same
\* order: the rolling c and the rolling hash over the first orbit of the diff
\* stream are the c the Delaunay walk decrements and the hash it recomputes.
\* A callback that fails interrupts both walks at the same match.
C30_ExtendedStartsWithDelaunay ==
    (Completed("extended") /\ Shape # "QueryCallback_Point") =>
        \A d \in {DelaunayOfQuery} :
            /\ d.matches = SubSeq(walk.matches, 1,
                                  Min(Len(walk.matches), self[1].m_dim + 1))
            /\ NeverFails =>
                   /\ d.err = Error_ok
                   /\ Len(d.matches) = self[1].m_dim + 1
                   /\ Len(walk.matches) >= self[1].m_dim + 1

\* An extended query with a callback that takes the hash, k and the
\* c-vector, on a two-dimensional engine with several orbits, for a vector where
\* setK0 found h # 0 and an order that is not the identity.
C30_Witness ==
    /\ Completed("extended")
    /\ Shape = "QueryCallback"
    /\ NeverFails
    /\ self[1].m_dim = 2
    /\ Len(walk.matches) > 3
    /\ K0.h # 0
    /\ K0.order # StartSortOrd(2)
    /\ Len(DelaunayOfQuery.matches) = 3
    /\ DelaunayOfQuery.matches[3].hash_code # DelaunayOfQuery.matches[1].hash_code

==========================================================================
